---------------------------- MODULE Spec2Model ----------------------------
(***************************************************************************)
(* Chessable TTS: the SAN move parser and speech transducer                *)
(* (src/src/chess-notation.ts) and the narration coordinator state machine *)
(* (src/src/content.ts) driving the Web Speech device.                     *)
(*                                                                         *)
(* Texts are sequences of one-character strings.                           *)
(***************************************************************************)
EXTENDS Integers, Sequences, FiniteSets, TLC

NULL == "null"

\* the null of a function that returns a record (parseMove, String.match)
NoMatch == [null |-> TRUE]

(***************************************************************************)
(* Character classes used by the regular expressions of chess-notation.ts  *)
(* and content.ts.                                                         *)
(***************************************************************************)
Digits == {"0", "1", "2", "3", "4", "5", "6", "7", "8", "9"}

\* \w of the regular expressions
WordChars ==
    Digits
    \cup {"a", "b", "c", "d", "e", "f", "g", "h", "i", "j", "k", "l", "m",
          "n", "o", "p", "q", "r", "s", "t", "u", "v", "w", "x", "y", "z"}
    \cup {"A", "B", "C", "D", "E", "F", "G", "H", "I", "J", "K", "L", "M",
          "N", "O", "P", "Q", "R", "S", "T", "U", "V", "W", "X", "Y", "Z"}
    \cup {"_"}

\* \s of the regular expressions (the whitespace that occurs in the texts)
SpaceChars == {" ", "\t", "\n"}

PieceLetters == {"K", "Q", "R", "B", "N"}

PromoLetters == {"Q", "R", "B", "N"}

Files == {"a", "b", "c", "d", "e", "f", "g", "h"}

Ranks == {"1", "2", "3", "4", "5", "6", "7", "8"}

SuffixGlyphs == {"+", "#", "!", "?"}

(***************************************************************************)
(* String helpers (String.prototype.slice / trim / endsWith / join).       *)
(***************************************************************************)
\* s.slice(a, b) with 0-based a, b as in JavaScript, for 0 <= a, b <= Len(s)
Slice(s, a, b) == IF b <= a THEN << >> ELSE SubSeq(s, a + 1, b)

RECURSIVE TrimLeft(_)
TrimLeft(s) ==
    IF s # << >> /\ Head(s) \in SpaceChars THEN TrimLeft(Tail(s)) ELSE s

RECURSIVE TrimRight(_)
TrimRight(s) ==
    IF s # << >> /\ s[Len(s)] \in SpaceChars
    THEN TrimRight(SubSeq(s, 1, Len(s) - 1))
    ELSE s

Trim(s) == TrimRight(TrimLeft(s))

EndsWith(s, suffix) ==
    /\ Len(s) >= Len(suffix)
    /\ SubSeq(s, Len(s) - Len(suffix) + 1, Len(s)) = suffix

\* parts.join(sep)
RECURSIVE Join(_, _)
Join(parts, sep) ==
    IF parts = << >> THEN << >>
    ELSE IF Len(parts) = 1 THEN parts[1]
    ELSE parts[1] \o sep \o Join(Tail(parts), sep)

\* the number of leading characters of s, from 1-based position i, that are in cls
RECURSIVE RunLen(_, _, _)
RunLen(s, i, cls) ==
    IF i <= Len(s) /\ s[i] \in cls THEN 1 + RunLen(s, i + 1, cls) ELSE 0

\* the number of trailing characters of s that are in cls
RECURSIVE TrailLen(_, _)
TrailLen(s, cls) ==
    IF s # << >> /\ s[Len(s)] \in cls
    THEN 1 + TrailLen(SubSeq(s, 1, Len(s) - 1), cls)
    ELSE 0

(***************************************************************************)
(* chess-notation.ts: constants                                            *)
(***************************************************************************)
\* the words of moveToSpeech
WORDS ==
    [pawn |-> <<"p", "a", "w", "n">>,
     on |-> <<"o", "n">>,
     to |-> <<"t", "o">>,
     takes |-> <<"t", "a", "k", "e", "s">>,
     promotes_to |-> <<"p", "r", "o", "m", "o", "t", "e", "s", " ", "t", "o">>,
     check |-> <<"c", "h", "e", "c", "k">>,
     double_check |-> <<"d", "o", "u", "b", "l", "e", " ", "c", "h", "e", "c", "k">>,
     checkmate |-> <<"c", "h", "e", "c", "k", "m", "a", "t", "e">>,
     Kingside_castle |->
        <<"K", "i", "n", "g", "s", "i", "d", "e", " ", "c", "a", "s", "t", "l", "e">>,
     Queenside_castle |->
        <<"Q", "u", "e", "e", "n", "s", "i", "d", "e", " ", "c", "a", "s", "t", "l", "e">>]
SP == <<" ">>

T_OOO == <<"O", "-", "O", "-", "O">>
T_OO == <<"O", "-", "O">>

PIECE_NAMES(p) ==
    CASE p = "K" -> <<"K", "i", "n", "g">>
      [] p = "Q" -> <<"Q", "u", "e", "e", "n">>
      [] p = "R" -> <<"R", "o", "o", "k">>
      [] p = "B" -> <<"B", "i", "s", "h", "o", "p">>
      [] p = "N" -> <<"K", "n", "i", "g", "h", "t">>

\* variant: the square is spoken as written ("e4", not "e 4")
speakSquare_Unspaced(square) == square

\* square.split('').join(' ')
RECURSIVE speakSquare(_)
speakSquare(square) ==
    IF Len(square) <= 1 THEN square
    ELSE <<square[1]>> \o SP \o speakSquare(Tail(square))

(***************************************************************************)
(* chess-notation.ts: parseMove                                            *)
(***************************************************************************)
\* variant: one dot only is stripped (/^\d+\.\s*/)
stripMoveNumber_SingleDot(move) ==
    LET d == RunLen(move, 1, Digits)
        k == IF d + 1 <= Len(move) /\ move[d + 1] = "." THEN 1 ELSE 0
        w == RunLen(move, d + k + 1, SpaceChars)
    IN  IF d >= 1 /\ k >= 1 THEN SubSeq(move, d + k + w + 1, Len(move)) ELSE move

\* move.replace(/^\d+\.+\s*/, '')
stripMoveNumber(move) ==
    LET d == RunLen(move, 1, Digits)
        k == RunLen(move, d + 1, {"."})
        w == RunLen(move, d + k + 1, SpaceChars)
    IN  IF d >= 1 /\ k >= 1 THEN SubSeq(move, d + k + w + 1, Len(move)) ELSE move

\* variant: the single '+' is tested before '++'
detectSuffix_PlusFirst(move) ==
    IF EndsWith(move, <<"#">>)
    THEN [isCheck |-> FALSE, isDoubleCheck |-> FALSE, isCheckmate |-> TRUE, cut |-> 1]
    ELSE IF EndsWith(move, <<"+">>)
    THEN [isCheck |-> TRUE, isDoubleCheck |-> FALSE, isCheckmate |-> FALSE, cut |-> 1]
    ELSE IF EndsWith(move, <<"+", "+">>)
    THEN [isCheck |-> FALSE, isDoubleCheck |-> TRUE, isCheckmate |-> FALSE, cut |-> 2]
    ELSE [isCheck |-> FALSE, isDoubleCheck |-> FALSE, isCheckmate |-> FALSE, cut |-> 0]

\* variant: the three tests are not exclusive ('++' also ends with '+')
detectSuffix_WithoutElse(move) ==
    [isCheck |-> EndsWith(move, <<"+">>),
     isDoubleCheck |-> EndsWith(move, <<"+", "+">>),
     isCheckmate |-> EndsWith(move, <<"#">>),
     cut |-> IF EndsWith(move, <<"+", "+">>) THEN 2
             ELSE IF EndsWith(move, <<"#">>) \/ EndsWith(move, <<"+">>) THEN 1
             ELSE 0]

\* the suffix detection of parseMove: the flags and the number of characters removed
detectSuffix(move) ==
    IF EndsWith(move, <<"#">>)
    THEN [isCheck |-> FALSE, isDoubleCheck |-> FALSE, isCheckmate |-> TRUE, cut |-> 1]
    ELSE IF EndsWith(move, <<"+", "+">>)
    THEN [isCheck |-> FALSE, isDoubleCheck |-> TRUE, isCheckmate |-> FALSE, cut |-> 2]
    ELSE IF EndsWith(move, <<"+">>)
    THEN [isCheck |-> TRUE, isDoubleCheck |-> FALSE, isCheckmate |-> FALSE, cut |-> 1]
    ELSE [isCheck |-> FALSE, isDoubleCheck |-> FALSE, isCheckmate |-> FALSE, cut |-> 0]

\* variant: the check glyphs are stripped with the annotations (/[!?+#]+$/)
stripAnnotations_AllGlyphs(move) ==
    SubSeq(move, 1, Len(move) - TrailLen(move, SuffixGlyphs))

\* move.replace(/[!?]+$/, '')
stripAnnotations(move) ==
    SubSeq(move, 1, Len(move) - TrailLen(move, {"!", "?"}))

\* variant: the '=' before the promotion letter is required (/=([QRBN])$/)
detectPromotion_RequiresEquals(move) ==
    LET n == Len(move)
        beforePromo == SubSeq(move, 1, n - 2)
    IN  IF /\ n >= 2 /\ move[n] \in PromoLetters /\ move[n - 1] = "="
           /\ beforePromo # << >> /\ beforePromo[Len(beforePromo)] \in Ranks
        THEN [promotionPiece |-> move[n], move |-> beforePromo]
        ELSE [promotionPiece |-> NULL, move |-> move]

\* the promotion step of parseMove: the promotion piece (or NULL) and the
\* working token that remains
detectPromotion(move) ==
    LET n == Len(move)
        hasMatch == n >= 1 /\ move[n] \in PromoLetters           \* /=?([QRBN])$/
        mlen == IF n >= 2 /\ move[n - 1] = "=" THEN 2 ELSE 1      \* promoMatch[0].length
        beforePromo == SubSeq(move, 1, n - mlen)
    IN  IF hasMatch /\ beforePromo # << >> /\ beforePromo[Len(beforePromo)] \in Ranks
        THEN [promotionPiece |-> move[n], move |-> beforePromo]
        ELSE [promotionPiece |-> NULL, move |-> move]

\* move.match(/^([KQRBN])?([a-h])?([1-8])?(x)?([a-h][1-8])$/): the capture
\* groups, or NULL when the token does not match
matchGrammar(move) ==
    LET n == Len(move)
        pre == SubSeq(move, 1, n - 2)
        hasP == Len(pre) >= 1 /\ pre[1] \in PieceLetters
        i1 == IF hasP THEN 2 ELSE 1
        hasF == i1 <= Len(pre) /\ pre[i1] \in Files
        i2 == IF hasF THEN i1 + 1 ELSE i1
        hasR == i2 <= Len(pre) /\ pre[i2] \in Ranks
        i3 == IF hasR THEN i2 + 1 ELSE i2
        hasX == i3 <= Len(pre) /\ pre[i3] = "x"
        i4 == IF hasX THEN i3 + 1 ELSE i3
    IN  IF n >= 2 /\ move[n - 1] \in Files /\ move[n] \in Ranks /\ i4 = Len(pre) + 1
        THEN [rawPiece |-> IF hasP THEN pre[1] ELSE NULL,
              rawFromFile |-> IF hasF THEN pre[i1] ELSE NULL,
              rawFromRank |-> IF hasR THEN pre[i2] ELSE NULL,
              rawCapture |-> hasX,
              rawToSquare |-> <<move[n - 1], move[n]>>]
        ELSE NoMatch

CastleMove(sfx, kingside) ==
    [piece |-> NULL, fromFile |-> NULL, fromRank |-> NULL,
     isCapture |-> FALSE, toSquare |-> <<"g", "8">>,
     promotionPiece |-> NULL,
     isCheck |-> sfx.isCheck, isDoubleCheck |-> sfx.isDoubleCheck,
     isCheckmate |-> sfx.isCheckmate,
     isCastleKingside |-> kingside, isCastleQueenside |-> ~kingside]

parseMove(token) ==
    IF token = << >> THEN NoMatch
    ELSE
    LET move1 == stripMoveNumber(Trim(token))
        sfx == detectSuffix(move1)
        move2 == SubSeq(move1, 1, Len(move1) - sfx.cut)
        move3 == stripAnnotations(move2)
        promo == detectPromotion(move3)
        m == matchGrammar(promo.move)
    IN  IF move3 = T_OOO \/ move3 = <<"0", "-", "0", "-", "0">> THEN CastleMove(sfx, FALSE)
        ELSE IF move3 = T_OO \/ move3 = <<"0", "-", "0">> THEN CastleMove(sfx, TRUE)
        ELSE IF m = NoMatch THEN NoMatch
        ELSE [piece |-> m.rawPiece, fromFile |-> m.rawFromFile,
              fromRank |-> m.rawFromRank, isCapture |-> m.rawCapture,
              toSquare |-> m.rawToSquare,
              promotionPiece |-> promo.promotionPiece,
              isCheck |-> sfx.isCheck, isDoubleCheck |-> sfx.isDoubleCheck,
              isCheckmate |-> sfx.isCheckmate,
              isCastleKingside |-> FALSE, isCastleQueenside |-> FALSE]

(***************************************************************************)
(* chess-notation.ts: moveToSpeech                                         *)
(***************************************************************************)
\* variant: the castle phrase does not end the body (no else branch)
moveToSpeech_CastleThenMove(parsed) ==
    LET body ==
            (IF parsed.isCastleQueenside THEN <<WORDS.Queenside_castle>>
             ELSE IF parsed.isCastleKingside THEN <<WORDS.Kingside_castle>>
             ELSE << >>)
            \o
                (IF parsed.piece # NULL THEN <<PIECE_NAMES(parsed.piece)>>
                 ELSE IF parsed.fromFile # NULL /\ parsed.isCapture
                      THEN <<<<parsed.fromFile>> \o SP \o WORDS.pawn>>
                      ELSE <<WORDS.pawn>>)
                \o (IF parsed.piece # NULL
                       /\ (parsed.fromFile # NULL \/ parsed.fromRank # NULL)
                    THEN <<WORDS.on \o SP \o speakSquare(
                              (IF parsed.fromFile # NULL THEN <<parsed.fromFile>> ELSE << >>)
                              \o (IF parsed.fromRank # NULL THEN <<parsed.fromRank>> ELSE << >>))>>
                    ELSE << >>)
                \o <<IF parsed.isCapture THEN WORDS.takes ELSE WORDS.to>>
                \o <<speakSquare(parsed.toSquare)>>
                \o (IF parsed.promotionPiece # NULL
                    THEN <<WORDS.promotes_to \o SP \o PIECE_NAMES(parsed.promotionPiece)>>
                    ELSE << >>)
        suffix ==
            IF parsed.isCheckmate THEN <<WORDS.checkmate>>
            ELSE IF parsed.isDoubleCheck THEN <<WORDS.double_check>>
            ELSE IF parsed.isCheck THEN <<WORDS.check>>
            ELSE << >>
    IN  Join(body \o suffix, SP)

moveToSpeech(parsed) ==
    LET body ==
            IF parsed.isCastleQueenside THEN <<WORDS.Queenside_castle>>
            ELSE IF parsed.isCastleKingside THEN <<WORDS.Kingside_castle>>
            ELSE
                (IF parsed.piece # NULL THEN <<PIECE_NAMES(parsed.piece)>>
                 ELSE IF parsed.fromFile # NULL /\ parsed.isCapture
                      THEN <<<<parsed.fromFile>> \o SP \o WORDS.pawn>>
                      ELSE <<WORDS.pawn>>)
                \o (IF parsed.piece # NULL
                       /\ (parsed.fromFile # NULL \/ parsed.fromRank # NULL)
                    THEN <<WORDS.on \o SP \o speakSquare(
                              (IF parsed.fromFile # NULL THEN <<parsed.fromFile>> ELSE << >>)
                              \o (IF parsed.fromRank # NULL THEN <<parsed.fromRank>> ELSE << >>))>>
                    ELSE << >>)
                \o <<IF parsed.isCapture THEN WORDS.takes ELSE WORDS.to>>
                \o <<speakSquare(parsed.toSquare)>>
                \o (IF parsed.promotionPiece # NULL
                    THEN <<WORDS.promotes_to \o SP \o PIECE_NAMES(parsed.promotionPiece)>>
                    ELSE << >>)
        suffix ==
            IF parsed.isCheckmate THEN <<WORDS.checkmate>>
            ELSE IF parsed.isDoubleCheck THEN <<WORDS.double_check>>
            ELSE IF parsed.isCheck THEN <<WORDS.check>>
            ELSE << >>
    IN  Join(body \o suffix, SP)

(***************************************************************************)
(* chess-notation.ts: MOVE_PATTERN.  Positions are 1-based; a match is     *)
(* given by the position after its last character, 0 meaning no match.     *)
(***************************************************************************)
\* \b between text[i - 1] and text[i]
WordBoundary(text, i) ==
    (i > 1 /\ text[i - 1] \in WordChars) # (i <= Len(text) /\ text[i] \in WordChars)

StartsWithAt(text, i, lit) ==
    /\ i + Len(lit) - 1 <= Len(text)
    /\ SubSeq(text, i, i + Len(lit) - 1) = lit

\* one optional single-character group: k is the position reached (0 = failed)
OptChar(text, k, use, cls) ==
    IF k = 0 THEN 0
    ELSE IF ~use THEN k
    ELSE IF k <= Len(text) /\ text[k] \in cls THEN k + 1
    ELSE 0

\* [KQRBN]?[a-h]?[1-8]?x?[a-h][1-8] from position j with the optional groups
\* taken (TRUE) or skipped (FALSE)
sanCoreEnd(text, j, p, f, r, x) ==
    LET k1 == OptChar(text, j, p, PieceLetters)
        k2 == OptChar(text, k1, f, Files)
        k3 == OptChar(text, k2, r, Ranks)
        k4 == OptChar(text, k3, x, {"x"})
        k5 == OptChar(text, k4, TRUE, Files)
    IN  OptChar(text, k5, TRUE, Ranks)

\* the backtracking order of the four greedy optional groups: combination c in
\* 15..0, bit 8 = piece, 4 = file, 2 = rank, 1 = capture; the first that matches
RECURSIVE sanCoreFirst(_, _, _)
sanCoreFirst(text, j, c) ==
    IF c < 0 THEN 0
    ELSE LET e == sanCoreEnd(text, j, (c \div 8) % 2 = 1, (c \div 4) % 2 = 1,
                             (c \div 2) % 2 = 1, c % 2 = 1)
         IN  IF e # 0 THEN e ELSE sanCoreFirst(text, j, c - 1)

\* [KQRBN]?[a-h]?[1-8]?x?[a-h][1-8](?:=[QRBN])?[+#!?]*
sanEnd(text, j) ==
    LET e == sanCoreFirst(text, j, 15)
        e2 == IF e + 1 <= Len(text) /\ text[e] = "=" /\ text[e + 1] \in PromoLetters
              THEN e + 2 ELSE e
    IN  IF e = 0 THEN 0 ELSE e2 + RunLen(text, e2, SuffixGlyphs)

\* (?:O-O-O|O-O|0-0-0|0-0|<SAN>)
bodyEnd(text, j) ==
    IF StartsWithAt(text, j, T_OOO) THEN j + 5
    ELSE IF StartsWithAt(text, j, T_OO) THEN j + 3
    ELSE IF StartsWithAt(text, j, <<"0", "-", "0", "-", "0">>) THEN j + 5
    ELSE IF StartsWithAt(text, j, <<"0", "-", "0">>) THEN j + 3
    ELSE sanEnd(text, j)

\* MOVE_PATTERN tried at position i
matchAt(text, i) ==
    LET d == RunLen(text, i, Digits)
        kAll == RunLen(text, i + d, {"."})
        k == IF kAll > 3 THEN 3 ELSE kAll
        w == RunLen(text, i + d + k, SpaceChars)
        withPrefix == IF d >= 1 /\ k >= 1 THEN bodyEnd(text, i + d + k + w) ELSE 0
    IN  IF ~WordBoundary(text, i) THEN 0
        ELSE IF withPrefix # 0 THEN withPrefix
        ELSE bodyEnd(text, i)

\* MOVE_PATTERN.exec from position i: the first position >= i with a match, 0 if none
RECURSIVE nextMatch(_, _)
nextMatch(text, i) ==
    IF i > Len(text) THEN 0
    ELSE IF matchAt(text, i) # 0 THEN i
    ELSE nextMatch(text, i + 1)

(***************************************************************************)
(* chess-notation.ts: processText and processTextWithMoveMap               *)
(***************************************************************************)
\* the replacer callback of processText, after parseMove(match) and after
\* moveToSpeech(parsed)
replaceSpoken(match, spoken) ==
    IF spoken = << >> THEN match ELSE spoken

replaceParsed(match, parsed) ==
    IF parsed = NoMatch THEN match ELSE replaceSpoken(match, moveToSpeech(parsed))

replaceMatch(match) == replaceParsed(match, parseMove(match))

\* text.replace(MOVE_PATTERN, ...) from position i: start is the next match
\* (0 = none), e the position after it
RECURSIVE replaceFrom(_, _)
replaceSpan(text, i, start, e) ==
    SubSeq(text, i, start - 1)
    \o replaceMatch(SubSeq(text, start, e - 1))
    \o replaceFrom(text, e)

replaceAt(text, i, start) ==
    IF start = 0 THEN SubSeq(text, i, Len(text))
    ELSE replaceSpan(text, i, start, matchAt(text, start))

replaceFrom(text, i) == replaceAt(text, i, nextMatch(text, i))

processText(text) ==
    IF text = << >> THEN text ELSE replaceFrom(text, 1)

\* variant: a range is recorded for castling moves too
moveMapPush_RecordsCastling(acc, e, parsed, spoken, before) ==
    [result |-> before \o spoken,
     lastIndex |-> e - 1,
     moveRanges |->
        Append(acc.moveRanges,
               [charStart |-> Len(before),
                charEnd |-> Len(before) + Len(spoken),
                square |-> parsed.toSquare])]

\* variant: the text before the match is not appended to result
moveMapPush_WithoutBefore(acc, e, parsed, spoken, before) ==
    [result |-> acc.result \o spoken,
     lastIndex |-> e - 1,
     moveRanges |->
        IF ~parsed.isCastleKingside /\ ~parsed.isCastleQueenside
        THEN Append(acc.moveRanges,
                    [charStart |-> Len(before),
                     charEnd |-> Len(before) + Len(spoken),
                     square |-> parsed.toSquare])
        ELSE acc.moveRanges]
\* variant: a new range is put in front of the ranges found so far
moveMapPush_PrependsRange(acc, e, parsed, spoken, before) ==
    [result |-> before \o spoken,
     lastIndex |-> e - 1,
     moveRanges |->
        IF ~parsed.isCastleKingside /\ ~parsed.isCastleQueenside
        THEN <<[charStart |-> Len(before),
                charEnd |-> Len(before) + Len(spoken),
                square |-> parsed.toSquare]>> \o acc.moveRanges
        ELSE acc.moveRanges]

\* the while loop of processTextWithMoveMap; acc holds result, lastIndex
\* (0-based, as in the source) and moveRanges.  A transduced move is appended with
\* the text before it; its range is recorded unless it is a castling move
moveMapPush(acc, e, parsed, spoken, before) ==
    [result |-> before \o spoken,
     lastIndex |-> e - 1,
     moveRanges |->
        IF ~parsed.isCastleKingside /\ ~parsed.isCastleQueenside
        THEN Append(acc.moveRanges,
                    [charStart |-> Len(before),
                     charEnd |-> Len(before) + Len(spoken),
                     square |-> parsed.toSquare])
        ELSE acc.moveRanges]

RECURSIVE moveMapLoop(_, _, _)
moveMapSpoken(text, acc, start, e, parsed, spoken) ==
    IF spoken = << >> THEN moveMapLoop(text, e, acc)
    ELSE moveMapLoop(text, e,
            moveMapPush(acc, e, parsed, spoken,
                        acc.result \o Slice(text, acc.lastIndex, start - 1)))

\* variant: lastIndex moves past a rejected match (its text is not copied)
moveMapParsed_SkipsRejected(text, acc, start, e, parsed) ==
    IF parsed = NoMatch
    THEN moveMapLoop(text, e,
            [acc EXCEPT !.result = @ \o Slice(text, acc.lastIndex, start - 1),
                        !.lastIndex = e - 1])
    ELSE moveMapSpoken(text, acc, start, e, parsed, moveToSpeech(parsed))

moveMapParsed(text, acc, start, e, parsed) ==
    IF parsed = NoMatch THEN moveMapLoop(text, e, acc)
    ELSE moveMapSpoken(text, acc, start, e, parsed, moveToSpeech(parsed))

moveMapSpan(text, acc, start, e) ==
    moveMapParsed(text, acc, start, e, parseMove(SubSeq(text, start, e - 1)))

moveMapAt(text, acc, start) ==
    IF start = 0 THEN acc ELSE moveMapSpan(text, acc, start, matchAt(text, start))

moveMapLoop(text, i, acc) == moveMapAt(text, acc, nextMatch(text, i))

\* variant: the text after the last match is not appended
moveMapResult_WithoutRest(text, acc) ==
    [processed |-> acc.result, moveRanges |-> acc.moveRanges]

\* the result and moveRanges after the loop, with the rest of the text appended
moveMapResult(text, acc) ==
    [processed |-> acc.result \o Slice(text, acc.lastIndex, Len(text)),
     moveRanges |-> acc.moveRanges]

processTextWithMoveMap(text) ==
    IF text = << >> THEN [processed |-> text, moveRanges |-> << >>]
    ELSE moveMapResult(text, moveMapLoop(text, 1,
            [result |-> << >>, lastIndex |-> 0, moveRanges |-> << >>]))

(***************************************************************************)
(* content.ts: the narration coordinator.                                  *)
(*                                                                         *)
(* Module-level variables of content.ts (lines 74-96) keep their names.    *)
(* A timer variable is ARMED when it holds the handle of a pending timer   *)
(* and NULL otherwise.  Every callback of a kind sets the variable of that *)
(* kind to null when it runs, so a non-null variable always names a timer  *)
(* that is still pending; orphanDetect / orphanCooldown count the pending  *)
(* timers whose handle was overwritten, or nulled by another callback,     *)
(* before they fired (setTimeout without a clearTimeout of the old one).   *)
(***************************************************************************)
VARIABLES
    settings,                  \* let settings: TTSSettings
    state,                     \* let state: TTSState
    detectTimer,               \* NULL or ARMED
    cooldownTimer,             \* NULL or ARMED
    collectedTriggers,         \* sequence of trigger nodes
    currentWordMapping,        \* NULL or the host element of the WordMapping
    currentRawText,
    currentProcessedText,
    processedWordStarts,
    keepAliveTimer,            \* NULL or ARMED
    currentMoveRanges,
    currentHighlightedSquare,  \* NoSquare or a square
    playbackState,             \* ControlPanel.playbackState
    orphanDetect,              \* pending detect timers no variable refers to
    orphanCooldown,            \* pending cooldown timers no variable refers to
    synthQueue,                \* speechSynthesis: one entry per utterance queued
    synthPaused,               \* speechSynthesis.paused
    lateEvents,                \* final events the device still owes for cancelled utterances
    overlays,                  \* board squares that carry a highlight overlay
    wordSpans,                 \* elements whose words are wrapped in spans
    lastOp,                    \* history: the handler that ran last, with its inputs
    deviceCalls,               \* history: the device calls that handler made, in order
    spokenUtterance,           \* history: the utterance it handed to speak(), if any
    inputToken,                \* the string given to parseMove / processText
    inputParts,                \* the components inputToken is made of
    parsedMove,                \* a ParsedMove, or NoMatch (null)
    spokenPhrase,              \* what moveToSpeech / processText returned last
    moveMap,                   \* what processTextWithMoveMap returned last
    domPage,                   \* the page and trigger node an extraction read
    extractedText,             \* what extractMoveNotation / extractExplanation returned last
    quiet                      \* the environment: no trigger, command or message comes any more

vars ==
    <<settings, state, detectTimer, cooldownTimer, collectedTriggers,
      currentWordMapping, currentRawText, currentProcessedText,
      processedWordStarts, keepAliveTimer, currentMoveRanges,
      currentHighlightedSquare, playbackState, orphanDetect, orphanCooldown,
      synthQueue, synthPaused, lateEvents, overlays,
      wordSpans, lastOp, deviceCalls, spokenUtterance,
      inputToken, inputParts, parsedMove, spokenPhrase, moveMap,
      domPage, extractedText, quiet>>

ARMED == "armed"

\* the null of a square (a sequence of two characters)
NoSquare == << >>

\* ── bounds of the model ────────────────────────────────────────────────────
\* utterances the device holds or still owes a final event for
MaxUtterances == 2
\* trigger nodes collected in one coalescing window
MaxTriggers == 2
\* pending timers of one kind that no variable refers to
MaxOrphans == 1
\* words of a prose text given to processText
MaxWords == 3
\* the trigger node has at most this many ancestors
MaxAncestors == 7

\* ── input domains ──────────────────────────────────────────────────────────
\* a trigger node (an HTMLElement: the element the observer saw change, or
\* document.body from the debug API); the handlers never compare nodes
Nodes == {"element"}

\* settings values are in tenths (rate 1.0 = 10)
SettingsFields ==
    {"enabled", "rate", "pitch", "volume", "voice", "readMoveFirst", "readExplanation"}

SpeechFields == {"rate", "pitch", "volume", "voice"}

FieldValues(f) ==
    CASE f = "rate" -> {10, 15}
      [] f = "pitch" -> {10, 15}
      [] f = "volume" -> {10, 5}
      [] f = "voice" -> {"", "Alice"}
      [] OTHER -> BOOLEAN

\* unnamed/part_000 (types.ts): DEFAULT_SETTINGS
DEFAULT_SETTINGS ==
    [enabled |-> TRUE, rate |-> 10, pitch |-> 10, volume |-> 10, voice |-> "",
     readMoveFirst |-> TRUE, readExplanation |-> TRUE]

\* the defaults, and the defaults with one of the fields F changed
SettingsVarying(F) ==
    {DEFAULT_SETTINGS}
    \cup UNION {{[DEFAULT_SETTINGS EXCEPT ![f] = x] : x \in FieldValues(f)} : f \in F}

\* the settings explored with the whole coordinator: narration on or off
CoordinatorSettings == SettingsVarying({"enabled"})

\* the settings explored with manual speech and the panel
SettingsDomain == SettingsVarying(SettingsFields)

\* texts found in the page
T_Nf3 == <<"N", "f", "3">>
T_wins == <<"i", "t", " ", "w", "i", "n", "s", " ", "n", "o", "w">>

\* texts handed to the debug API speak(text) / testNotation(text)
DebugTexts == {<<" ">>, T_Nf3}

\* the text of the TEST_SPEAK message (content.ts line 149)
TEST_SPEAK_TEXT ==
    <<"K", "n", "i", "g", "h", "t", " ", "t", "o", " ", "f", " ", "3", " ",
      "c", "h", "e", "c", "k", ".", " ", "T", "h", "i", "s", " ", "m", "o",
      "v", "e", " ", "a", "t", "t", "a", "c", "k", "s", " ", "t", "h", "e",
      " ", "q", "u", "e", "e", "n", " ", "o", "n", " ", "d", " ", "4", " ",
      "a", "n", "d", " ", "f", "o", "r", "k", "s", " ", "t", "h", "e", " ",
      "r", "o", "o", "k", ".">>


(***************************************************************************)
(* The program state as one record: a handler is the composition of the    *)
(* functions it calls, each a function from state to state.                *)
(***************************************************************************)
\* no element: a query that returns null
NoElement == [found |-> FALSE, san |-> << >>, text |-> << >>]

\* an element a query returns: san = getAttribute('data-san') ?? '', text = what
\* getVisibleText returns for it
Element(san, text) == [found |-> TRUE, san |-> san, text |-> text]

\* a page in which every query returns null.  near: the results of the queries
\* rooted at the trigger node, doc: of those rooted at the document;
\* sanNear: triggerNode.querySelector('[data-san]') ?? triggerNode.closest('[data-san]');
\* highlighted: document.querySelector('.textMoveHighlighted[data-san]');
\* parents: the trigger node's parentElement chain, nearest first
NoPage ==
    [near |-> [moveNotation |-> NoElement, explanationText |-> NoElement],
     doc |-> [moveNotation |-> NoElement, explanationText |-> NoElement,
              commentContainer |-> NoElement],
     sanNear |-> NoElement, highlighted |-> NoElement, parents |-> << >>,
     triggerNode |-> NULL]

\* no utterance
NoUtterance == [text |-> << >>, rate |-> 0, pitch |-> 0, volume |-> 0, voice |-> ""]

Cur ==
    [settings |-> settings, state |-> state, detectTimer |-> detectTimer,
     cooldownTimer |-> cooldownTimer, collectedTriggers |-> collectedTriggers,
     currentWordMapping |-> currentWordMapping,
     currentRawText |-> currentRawText,
     currentProcessedText |-> currentProcessedText,
     processedWordStarts |-> processedWordStarts,
     keepAliveTimer |-> keepAliveTimer,
     currentMoveRanges |-> currentMoveRanges,
     currentHighlightedSquare |-> currentHighlightedSquare,
     playbackState |-> playbackState,
     orphanDetect |-> orphanDetect, orphanCooldown |-> orphanCooldown,
     synthQueue |-> synthQueue, synthPaused |-> synthPaused,
     lateEvents |-> lateEvents, overlays |-> overlays, wordSpans |-> wordSpans,
     deviceCalls |-> << >>, spoken |-> NoUtterance, extracted |-> FALSE]

\* ── the speech device (window.speechSynthesis) ─────────────────────────────
\* cancel(): every utterance leaves the queue; the device still owes each its
\* final event.  The paused flag is not changed.
synthCancel(s) ==
    [s EXCEPT !.lateEvents = @ + Len(s.synthQueue),
              !.synthQueue = << >>,
              !.deviceCalls = Append(@, "cancel")]

\* speak(utterance): the utterance is appended to the queue
synthSpeak(s, utterance) ==
    [s EXCEPT !.synthQueue = Append(@, "utterance"),
              !.deviceCalls = Append(@, "speak"),
              !.spoken = utterance]

synthPause(s) ==
    [s EXCEPT !.synthPaused = TRUE, !.deviceCalls = Append(@, "pause")]

synthResume(s) ==
    [s EXCEPT !.synthPaused = FALSE, !.deviceCalls = Append(@, "resume")]

\* speechSynthesis.speaking
synthSpeaking(s) == s.synthQueue # << >>

\* ── board-highlighter.ts, word-highlighter.ts, panel.ts ────────────────────
highlightSquare(s, square) == [s EXCEPT !.overlays = @ \cup {square}]

clearHighlights(s) == [s EXCEPT !.overlays = {}]

\* currentWordMapping = prepareHighlighting(el, text): the words of el are
\* wrapped unless el has no usable text, and then the result is null
assignPrepareHighlighting(s, el, usable) ==
    IF usable
    THEN [s EXCEPT !.wordSpans = @ \cup {el}, !.currentWordMapping = el]
    ELSE [s EXCEPT !.currentWordMapping = NULL]

clearWordHighlighting(s, mapping) ==
    IF mapping = NULL THEN s ELSE [s EXCEPT !.wordSpans = @ \ {mapping}]

setPlaybackState(s, p) == [s EXCEPT !.playbackState = p]

\* ── content.ts ─────────────────────────────────────────────────────────────
\* X = null, or X overwritten, without clearTimeout(X): the timer X named
\* stays pending
dropDetectHandle(s) ==
    [s EXCEPT !.orphanDetect = IF s.detectTimer # NULL THEN @ + 1 ELSE @,
              !.detectTimer = NULL]

dropCooldownHandle(s) ==
    [s EXCEPT !.orphanCooldown = IF s.cooldownTimer # NULL THEN @ + 1 ELSE @,
              !.cooldownTimer = NULL]

\* X = setTimeout(...)
armDetectTimer(s) == [dropDetectHandle(s) EXCEPT !.detectTimer = ARMED]

armCooldownTimer(s) == [dropCooldownHandle(s) EXCEPT !.cooldownTimer = ARMED]

\* a pending timer leaves the timer queue because it fires: the one the
\* variable names, or one no variable names
takeDetectTimer(s, orphan) ==
    IF orphan THEN [s EXCEPT !.orphanDetect = @ - 1]
    ELSE [s EXCEPT !.detectTimer = NULL]

takeCooldownTimer(s, orphan) ==
    IF orphan THEN [s EXCEPT !.orphanCooldown = @ - 1]
    ELSE [s EXCEPT !.cooldownTimer = NULL]

\* if (X !== null) { clearTimeout(X); X = null; }
clearDetectTimer(s) == [s EXCEPT !.detectTimer = NULL]

clearCooldownTimer(s) == [s EXCEPT !.cooldownTimer = NULL]

clearKeepAlive(s) ==
    IF s.keepAliveTimer # NULL THEN [s EXCEPT !.keepAliveTimer = NULL] ELSE s

\* the 0-based offsets of the word starts (/\S+/g)
computeWordStarts(text) ==
    LET starts[i \in 0..Len(text)] ==
            IF i = 0 THEN << >>
            ELSE IF text[i] \notin SpaceChars /\ (i = 1 \/ text[i - 1] \in SpaceChars)
            THEN Append(starts[i - 1], i - 1)
            ELSE starts[i - 1]
    IN  starts[Len(text)]

onWrongMoveDetected_IgnoresOnlySpeaking(s, triggerNode) ==
    IF s.state = "speaking" THEN s
    ELSE LET s1 == [s EXCEPT !.collectedTriggers = Append(@, triggerNode)]
         IN  IF s1.state = "idle"
             THEN armDetectTimer([s1 EXCEPT !.state = "detecting"])
             ELSE armDetectTimer(clearDetectTimer(s1))

onWrongMoveDetected(s, triggerNode) ==
    IF s.state = "speaking" \/ s.state = "cooldown" THEN s
    ELSE LET s1 == [s EXCEPT !.collectedTriggers = Append(@, triggerNode)]
         IN  IF s1.state = "idle"
             THEN armDetectTimer([s1 EXCEPT !.state = "detecting"])
             ELSE armDetectTimer(clearDetectTimer(s1))

onSpeechEnd(s) ==
    LET s1 == clearHighlights(s)
        s2 == [s1 EXCEPT !.currentHighlightedSquare = NoSquare]
        s3 == clearWordHighlighting(s2, s2.currentWordMapping)
        s4 == [s3 EXCEPT !.currentWordMapping = NULL]
        s5 == clearKeepAlive(setPlaybackState(s4, "idle"))
    IN  armCooldownTimer([s5 EXCEPT !.state = "cooldown"])
\* variant: the cooldown never ends
onCooldownElapsed_StaysCooldown(s) == dropCooldownHandle(s)

\* the callback of the cooldown timer (content.ts lines 252-255)
onCooldownElapsed(s) ==
    [dropCooldownHandle(s) EXCEPT !.state = "idle"]

resetToIdle(s) ==
    LET s1 == clearCooldownTimer(clearDetectTimer(s))
        s2 == clearWordHighlighting(s1, s1.currentWordMapping)
        s3 == [s2 EXCEPT !.currentWordMapping = NULL,
                         !.currentHighlightedSquare = NoSquare]
        s4 == clearKeepAlive(setPlaybackState(s3, "idle"))
    IN  [s4 EXCEPT !.collectedTriggers = << >>, !.state = "idle"]

\* new SpeechSynthesisUtterance(processed) with the parameters of settings;
\* voices is what speechSynthesis.getVoices() lists
newUtterance(s, processed, voices) ==
    [text |-> processed,
     rate |-> s.settings.rate,
     pitch |-> s.settings.pitch,
     volume |-> s.settings.volume,
     voice |-> IF s.settings.voice # "" /\ s.settings.voice \in voices
               THEN s.settings.voice ELSE ""]

\* the texts doSpeak is called with
SpokenTexts ==
    DebugTexts
    \cup {TEST_SPEAK_TEXT, T_Nf3, T_wins, Join(<<T_Nf3, T_wins>>, <<".", " ">>)}

\* what doSpeak derives from its text: cleaned = text.trim() and
\* processTextWithMoveMap(cleaned)
cleanedText(cleaned, r) ==
    [cleaned |-> cleaned, processed |-> r.processed, moveRanges |-> r.moveRanges]

trimmedText(cleaned) == cleanedText(cleaned, processTextWithMoveMap(cleaned))

\* the same, computed once per text
doSpeakTexts == [t \in SpokenTexts |-> trimmedText(Trim(t))]

doSpeakProcessed(s, processed, voices) ==
    LET s1 == [s EXCEPT !.processedWordStarts = computeWordStarts(processed)]
        s2 == setPlaybackState(s1, "speaking")
        s3 == synthSpeak(s2, newUtterance(s2, processed, voices))
    IN  [clearKeepAlive(s3) EXCEPT !.keepAliveTimer = ARMED]
\* variant: doSpeak does not look at settings.enabled
doSpeakText_IgnoresEnabled(s, r, voices) ==
    IF r.cleaned = << >>
    THEN [s EXCEPT !.state = "idle"]
    ELSE doSpeakProcessed([s EXCEPT !.state = "speaking",
                                    !.currentMoveRanges = r.moveRanges,
                                    !.currentHighlightedSquare = NoSquare,
                                    !.currentRawText = r.cleaned,
                                    !.currentProcessedText = r.processed],
                          r.processed, voices)

\* doSpeak with r = what it derives from its text
doSpeakText(s, r, voices) ==
    IF ~s.settings.enabled \/ r.cleaned = << >>
    THEN [s EXCEPT !.state = "idle"]
    ELSE doSpeakProcessed([s EXCEPT !.state = "speaking",
                                    !.currentMoveRanges = r.moveRanges,
                                    !.currentHighlightedSquare = NoSquare,
                                    !.currentRawText = r.cleaned,
                                    !.currentProcessedText = r.processed],
                          r.processed, voices)

doSpeak(s, text, voices) == doSpeakText(s, doSpeakTexts[text], voices)

\* dom.el: the element findExplanationElement(null) finds, or NULL
restartSpeechWithNewSettings(s, dom) ==
    IF s.state # "speaking" THEN s
    ELSE IF s.currentProcessedText = << >> THEN s
    ELSE LET s1 == clearHighlights(synthCancel(s))
             s2 == [s1 EXCEPT !.currentHighlightedSquare = NoSquare]
             s3 == clearWordHighlighting(s2, s2.currentWordMapping)
             s4 == clearKeepAlive([s3 EXCEPT !.currentWordMapping = NULL])
             s5 == IF dom.el # NULL
                   THEN assignPrepareHighlighting(s4, dom.el, dom.usable)
                   ELSE s4
         IN  doSpeakProcessed(s5, s5.currentProcessedText, dom.voices)

speak_WithoutCancel(s, text, voices) ==
    doSpeak(resetToIdle(clearHighlights(s)), text, voices)

speak(s, text, voices) ==
    doSpeak(resetToIdle(clearHighlights(synthCancel(s))), text, voices)

\* ── text extraction from the page ──────────────────────────────────────────
\* queryAny(SELECTORS[group], root) with root the trigger node or the document
queryAny(page, group, root) ==
    IF root = "document" THEN page.doc[group] ELSE page.near[group]

\* (triggerNode && queryAny(selectors, triggerNode)) ?? queryAny(selectors, document)
queryNearOrDocument(page, group, triggerNode) ==
    IF triggerNode # NULL /\ queryAny(page, group, triggerNode).found
    THEN queryAny(page, group, triggerNode)
    ELSE queryAny(page, group, "document")

extractMoveNotation(page, triggerNode) ==
    IF triggerNode # NULL /\ page.sanNear.found /\ page.sanNear.san # << >>
    THEN page.sanNear.san
    ELSE IF page.highlighted.found /\ page.highlighted.san # << >>
    THEN page.highlighted.san
    ELSE LET moveEl == queryNearOrDocument(page, "moveNotation", triggerNode)
         IN IF ~moveEl.found THEN << >>
            ELSE IF moveEl.san # << >> THEN moveEl.san
            ELSE IF Len(Trim(moveEl.text)) > 0 THEN Trim(moveEl.text)
            ELSE << >>

\* strategy 3 of extractExplanation: the loop over the trigger node's ancestors,
\* from the iteration with the given depth on
RECURSIVE walkUp(_, _)
walkUp(parents, depth) ==
    IF depth >= 6 \/ depth >= Len(parents) THEN << >>
    ELSE IF /\ Len(Trim(parents[depth + 1].text)) > 10
            /\ Len(Trim(parents[depth + 1].text)) < 2000
    THEN Trim(parents[depth + 1].text)
    ELSE walkUp(parents, depth + 1)

\* variant: the comment container is read before the explanation element
extractExplanation_ContainerFirst(page, triggerNode) ==
    IF /\ queryAny(page, "commentContainer", "document").found
       /\ Len(Trim(queryAny(page, "commentContainer", "document").text)) > 10
       /\ Len(Trim(queryAny(page, "commentContainer", "document").text)) < 2000
    THEN Trim(queryAny(page, "commentContainer", "document").text)
    ELSE IF /\ queryNearOrDocument(page, "explanationText", triggerNode).found
            /\ Len(Trim(queryNearOrDocument(page, "explanationText", triggerNode).text)) > 3
    THEN Trim(queryNearOrDocument(page, "explanationText", triggerNode).text)
    ELSE IF triggerNode # NULL THEN walkUp(page.parents, 0)
    ELSE << >>

extractExplanation(page, triggerNode) ==
    IF /\ queryNearOrDocument(page, "explanationText", triggerNode).found
       /\ Len(Trim(queryNearOrDocument(page, "explanationText", triggerNode).text)) > 3
    THEN Trim(queryNearOrDocument(page, "explanationText", triggerNode).text)
    ELSE IF /\ queryAny(page, "commentContainer", "document").found
            /\ Len(Trim(queryAny(page, "commentContainer", "document").text)) > 10
            /\ Len(Trim(queryAny(page, "commentContainer", "document").text)) < 2000
    THEN Trim(queryAny(page, "commentContainer", "document").text)
    ELSE IF triggerNode # NULL THEN walkUp(page.parents, 0)
    ELSE << >>

\* the same lookup as extractExplanation, returning the element the text is in
findExplanationElement(page, triggerNode) ==
    IF extractExplanation(page, triggerNode) # << >> THEN "commentTextBlock"
    ELSE NULL

\* variant: the explanation is pushed before the move
detectParts_ExplanationFirst(cfg, move, explanation) ==
    (IF cfg.readExplanation /\ explanation # << >> THEN <<explanation>> ELSE << >>)
    \o (IF cfg.readMoveFirst /\ move # << >> THEN <<move>> ELSE << >>)

\* the parts onDetectWindowClosed collects under the settings cfg: the move if
\* it is wanted and not empty, then the explanation likewise
detectParts(cfg, move, explanation) ==
    (IF cfg.readMoveFirst /\ move # << >> THEN <<move>> ELSE << >>)
    \o (IF cfg.readExplanation /\ explanation # << >> THEN <<explanation>> ELSE << >>)

\* the pages the coordinator reads.  The move is on no element, in the data-san
\* of the element near the trigger or of the highlighted move, or in the visible
\* text of the move notation element; the explanation is nowhere, in the
\* explanation element near the trigger, in the comment container behind an
\* explanation element that is too short, or in the second ancestor of the
\* trigger behind a container and a parent that are too short
DetectPages ==
    {NoPage,
     [NoPage EXCEPT !.sanNear = Element(T_Nf3, << >>)],
     [NoPage EXCEPT !.highlighted = Element(T_Nf3, T_Nf3)],
     [NoPage EXCEPT !.doc.moveNotation = Element(<< >>, <<" ">> \o T_Nf3 \o <<" ">>)],
     [NoPage EXCEPT !.near.explanationText = Element(<< >>, <<" ">> \o T_wins \o <<" ">>)],
     [NoPage EXCEPT !.doc.moveNotation = Element(T_Nf3, << >>),
                    !.near.explanationText = Element(<< >>, T_wins)],
     [NoPage EXCEPT !.doc.moveNotation = Element(T_Nf3, << >>),
                    !.doc.explanationText = Element(<< >>, <<"o", "k", "!">>),
                    !.doc.commentContainer = Element(<< >>, T_wins)],
     [NoPage EXCEPT !.doc.moveNotation = Element(T_Nf3, << >>),
                    !.doc.commentContainer = Element(<< >>, SubSeq(T_wins, 1, 10)),
                    !.parents = <<Element(<< >>, SubSeq(T_wins, 1, 10)),
                                  Element(<< >>, T_wins)>>]}

\* what onDetectWindowClosed reads from a page with a trigger node, computed
\* once per page and trigger node
detectExtracts ==
    [pg \in DetectPages |->
        [t \in Nodes \cup {NULL} |->
            [move |-> extractMoveNotation(pg, t),
             explanation |-> extractExplanation(pg, t),
             explanationEl |-> findExplanationElement(pg, t)]]]

\* collectedTriggers[0] ?? null
firstTrigger(s) ==
    IF s.collectedTriggers # << >> THEN Head(s.collectedTriggers) ELSE NULL

isWrongMoveVisible_Always(dom) == TRUE

\* isWrongMoveVisible(): a wrong-move indicator is in the page
isWrongMoveVisible(dom) == dom.visible

onDetectWindowClosed_StaysDetecting(s, dom) ==
    LET s0 == dropDetectHandle(s)
        wantMove == s.settings.readMoveFirst
        wantExpl == s.settings.readExplanation
        triggerNode == firstTrigger(s)
        seen == detectExtracts[dom.page][triggerNode]
        parts == detectParts(s.settings, seen.move, seen.explanation)
        s1 == [s0 EXCEPT !.collectedTriggers = << >>,
                         !.extracted = wantMove \/ wantExpl]
        rawText == Join(parts, <<".", " ">>)
        s2 == IF seen.explanationEl # NULL
              THEN assignPrepareHighlighting(s1, seen.explanationEl, dom.usable)
              ELSE s1
    IN  IF ~isWrongMoveVisible(dom)
        THEN [s0 EXCEPT !.collectedTriggers = << >>, !.state = "idle"]
        ELSE IF parts = << >> THEN s1
        ELSE doSpeak(s2, rawText, dom.voices)

\* dom: what the page shows when the handler runs.  visible: a wrong-move
\* indicator is present; page: what the queries of extractMoveNotation,
\* extractExplanation and findExplanationElement return; usable:
\* prepareHighlighting finds words in the element; voices:
\* speechSynthesis.getVoices()
onDetectWindowClosed(s, dom) ==
    LET s0 == dropDetectHandle(s)
        wantMove == s.settings.readMoveFirst
        wantExpl == s.settings.readExplanation
        triggerNode == firstTrigger(s)
        seen == detectExtracts[dom.page][triggerNode]
        parts == detectParts(s.settings, seen.move, seen.explanation)
        s1 == [s0 EXCEPT !.collectedTriggers = << >>,
                         !.extracted = wantMove \/ wantExpl]
        rawText == Join(parts, <<".", " ">>)
        s2 == IF seen.explanationEl # NULL
              THEN assignPrepareHighlighting(s1, seen.explanationEl, dom.usable)
              ELSE s1
    IN  IF ~isWrongMoveVisible(dom)
        THEN [s0 EXCEPT !.collectedTriggers = << >>, !.state = "idle"]
        ELSE IF parts = << >> THEN [s1 EXCEPT !.state = "idle"]
        ELSE doSpeak(s2, rawText, dom.voices)

\* found: the texts the lookup strategies of readCurrentExplanation get, in
\* their order (collectExplanationNearMove for strategy 1, getVisibleText for
\* the others); the result is the first that is longer than 3 characters,
\* trimmed unless it is of strategy 1
readCurrentText(found) ==
    IF SelectSeq(found, LAMBDA f : Len(IF f.strategy = 1 THEN f.text
                                       ELSE Trim(f.text)) > 3) = << >>
    THEN << >>
    ELSE IF Head(SelectSeq(found, LAMBDA f : Len(IF f.strategy = 1 THEN f.text
                                                 ELSE Trim(f.text)) > 3)).strategy = 1
    THEN Head(SelectSeq(found, LAMBDA f : Len(IF f.strategy = 1 THEN f.text
                                              ELSE Trim(f.text)) > 3)).text
    ELSE Trim(Head(SelectSeq(found, LAMBDA f : Len(IF f.strategy = 1 THEN f.text
                                                   ELSE Trim(f.text)) > 3)).text)

\* variant: the timers and the collected triggers are kept
readCurrentExplanation_KeepsTimers(s, dom) ==
    LET s1 == clearHighlights(synthCancel(s))
        s2 == IF dom.el # NULL
              THEN assignPrepareHighlighting(s1, dom.el, dom.usable)
              ELSE s1
    IN  IF readCurrentText(dom.found) = << >> THEN s1
        ELSE doSpeak(s2, readCurrentText(dom.found), dom.voices)

\* dom.found: what the lookup strategies get, dom.el: the element the text is
\* highlighted in
readCurrentExplanation(s, dom) ==
    LET s1 == resetToIdle(clearHighlights(synthCancel(s)))
        s2 == IF dom.el # NULL
              THEN assignPrepareHighlighting(s1, dom.el, dom.usable)
              ELSE s1
    IN  IF readCurrentText(dom.found) = << >> THEN s1
        ELSE doSpeak(s2, readCurrentText(dom.found), dom.voices)

\* variant: the last text is not spoken again
onRestart_ResetsOnly(s, dom) ==
    LET s1 == clearHighlights(synthCancel(s))
        s2 == clearWordHighlighting(s1, s1.currentWordMapping)
        s3 == [s2 EXCEPT !.currentWordMapping = NULL,
                         !.currentHighlightedSquare = NoSquare]
    IN  resetToIdle(clearKeepAlive(s3))

onRestart(s, dom) ==
    LET s1 == clearHighlights(synthCancel(s))
        s2 == clearWordHighlighting(s1, s1.currentWordMapping)
        s3 == [s2 EXCEPT !.currentWordMapping = NULL,
                         !.currentHighlightedSquare = NoSquare]
        s4 == resetToIdle(clearKeepAlive(s3))
        s5 == [s4 EXCEPT !.state = "speaking"]
        s6 == IF dom.el # NULL
              THEN assignPrepareHighlighting(s5, dom.el, dom.usable)
              ELSE s5
    IN  IF s4.currentRawText # << >>
        THEN doSpeakProcessed(s6, s6.currentProcessedText, dom.voices)
        ELSE s4

\* a Partial<TTSSettings>: has = the fields that are defined, val = their values
mergeSettings(old, msg) ==
    [f \in SettingsFields |-> IF f \in msg.has THEN msg.val[f] ELSE old[f]]

fieldChanged_Never(msg, prev, f) == FALSE
\* variant: a field that is defined counts as changed
fieldChanged_IfDefined(msg, prev, f) == f \in msg.has

\* msg.settings.f !== undefined && msg.settings.f !== prev.f
fieldChanged(msg, prev, f) == f \in msg.has /\ msg.val[f] # prev[f]

\* chrome.runtime.onMessage, case 'SETTINGS_UPDATED'
onSettingsUpdated(s, msg, dom) ==
    LET prev == s.settings
        s1 == [s EXCEPT !.settings = mergeSettings(prev, msg)]
        s2 == IF "enabled" \in msg.has /\ msg.val.enabled = FALSE
                 /\ s1.state = "speaking"
              THEN resetToIdle(clearHighlights(synthCancel(s1)))
              ELSE s1
    IN  IF s2.state = "speaking"
           /\ (\/ fieldChanged(msg, prev, "rate")
               \/ fieldChanged(msg, prev, "pitch")
               \/ fieldChanged(msg, prev, "volume")
               \/ fieldChanged(msg, prev, "voice"))
        THEN restartSpeechWithNewSettings(s2, dom)
        ELSE s2

\* initPanel: applySpeechSetting(key, value)
applySpeechSetting(s, key, value, dom) ==
    restartSpeechWithNewSettings([s EXCEPT !.settings[key] = value], dom)

onToggleEnabled(s, enabled) ==
    LET s1 == [s EXCEPT !.settings.enabled = enabled]
    IN  IF ~enabled /\ s1.state = "speaking"
        THEN resetToIdle(clearHighlights(synthCancel(s1)))
        ELSE s1

onPause(s) == setPlaybackState(synthPause(s), "paused")

onResume(s) == setPlaybackState(synthResume(s), "speaking")
\* variant: the tick does not look at speechSynthesis.paused
onKeepAliveTick_ResumesPaused(s) ==
    IF ~synthSpeaking(s) THEN clearKeepAlive(s)
    ELSE synthResume(synthPause(s))

\* the callback of the keep-alive interval (content.ts lines 425-434)
onKeepAliveTick(s) ==
    IF ~synthSpeaking(s) THEN clearKeepAlive(s)
    ELSE IF ~s.synthPaused THEN synthResume(synthPause(s))
    ELSE s

\* currentMoveRanges.find(r => charIndex >= r.charStart && charIndex < r.charEnd)?.square ?? null
activeSquare(ranges, charIndex) ==
    LET hits == {i \in 1..Len(ranges) :
                    charIndex >= ranges[i].charStart /\ charIndex < ranges[i].charEnd}
    IN  IF hits = {} THEN NoSquare
        ELSE ranges[CHOOSE i \in hits : \A j \in hits : i <= j].square

\* utterance.onboundary; the word highlighting it does changes only the CSS
\* class of a word span, which is not part of the state here
onBoundary(s, name, charIndex) ==
    LET targetSquare == activeSquare(s.currentMoveRanges, charIndex)
        s1 == clearHighlights(s)
        s2 == IF targetSquare # NoSquare THEN highlightSquare(s1, targetSquare) ELSE s1
    IN  IF name # "word" THEN s
        ELSE IF targetSquare # s.currentHighlightedSquare
        THEN [s2 EXCEPT !.currentHighlightedSquare = targetSquare]
        ELSE s

\* utterance.onend
utteranceOnEnd(s) == onSpeechEnd(s)

utteranceOnError_IgnoresFailures(s, code) ==
    IF code = "interrupted" THEN onSpeechEnd(s) ELSE s

\* utterance.onerror; a code other than 'interrupted' is only logged
utteranceOnError(s, code) == onSpeechEnd(s)

(***************************************************************************)
(* Inputs of the handlers                                                  *)
(***************************************************************************)
\* what speechSynthesis.getVoices() returns: nothing before the voices are
\* loaded, the device's voices after
VoiceLists == {{}, {"Alice"}}

\* the lists that matter to an utterance built with the voice setting v: with
\* no voice chosen the list is not read
VoiceListsFor(v) == IF v = "" THEN {{"Alice"}} ELSE VoiceLists

\* the element findExplanationElement finds (NULL = none), and whether
\* prepareHighlighting finds words to wrap in it
ElementDoms ==
    {[el |-> NULL, usable |-> FALSE]}
    \cup {[el |-> x, usable |-> u] : x \in {"commentTextBlock"}, u \in BOOLEAN}

\* the page at the close of the detecting window; without a wrong-move
\* indicator nothing else of it is read
DetectDoms ==
    {[visible |-> FALSE, page |-> NoPage, usable |-> FALSE, voices |-> {}]}
    \cup {[visible |-> TRUE, page |-> pg, usable |-> u, voices |-> vs] :
             pg \in DetectPages, u \in BOOLEAN, vs \in VoiceLists}

\* the page when readCurrentExplanation runs
ReadDoms ==
    {[found |-> f, el |-> d.el, usable |-> d.usable, voices |-> vs] :
        f \in {<< >>,
               <<[strategy |-> 2, text |-> <<" ", "o", "k", "!", " ">>]>>,
               <<[strategy |-> 1, text |-> T_Nf3],
                 [strategy |-> 3, text |-> <<" ">> \o T_wins \o <<" ">>]>>,
               <<[strategy |-> 2, text |-> T_wins]>>},
        d \in ElementDoms, vs \in VoiceLists}

\* the inputs of a handler that may restart speech, with the voice setting v:
\* the page when speech is restarted
RestartDomsFor(s, v) ==
    IF s = "speaking"
    THEN {[el |-> d.el, usable |-> d.usable, voices |-> vs] :
             d \in ElementDoms, vs \in VoiceListsFor(v)}
    ELSE {[el |-> NULL, usable |-> FALSE, voices |-> {}]}

\* SETTINGS_UPDATED messages: the popup sends every field (popup.ts
\* saveAndBroadcast); the type allows any Partial, of which those with one field
Messages(D) ==
    {[has |-> SettingsFields, val |-> v] : v \in D}
    \cup UNION {{[has |-> {f}, val |-> [DEFAULT_SETTINGS EXCEPT ![f] = x]] :
                    x \in {v[f] : v \in D}} : f \in SettingsFields}

Op(name) == [op |-> name, arg |-> NULL]

\* the handler's result becomes the next state, within the bounds of the model
Apply(s, op) ==
    /\ Len(s.synthQueue) + s.lateEvents <= MaxUtterances
    /\ Len(s.collectedTriggers) <= MaxTriggers
    /\ s.orphanDetect <= MaxOrphans
    /\ s.orphanCooldown <= MaxOrphans
    /\ settings' = s.settings
    /\ state' = s.state
    /\ detectTimer' = s.detectTimer
    /\ cooldownTimer' = s.cooldownTimer
    /\ collectedTriggers' = s.collectedTriggers
    /\ currentWordMapping' = s.currentWordMapping
    /\ currentRawText' = s.currentRawText
    /\ currentProcessedText' = s.currentProcessedText
    /\ processedWordStarts' = s.processedWordStarts
    /\ keepAliveTimer' = s.keepAliveTimer
    /\ currentMoveRanges' = s.currentMoveRanges
    /\ currentHighlightedSquare' = s.currentHighlightedSquare
    /\ playbackState' = s.playbackState
    /\ orphanDetect' = s.orphanDetect
    /\ orphanCooldown' = s.orphanCooldown
    /\ synthQueue' = s.synthQueue
    /\ synthPaused' = s.synthPaused
    /\ lateEvents' = s.lateEvents
    /\ overlays' = s.overlays
    /\ wordSpans' = s.wordSpans
    /\ deviceCalls' = s.deviceCalls
    /\ spokenUtterance' = s.spoken
    /\ lastOp' = [op |-> op.op, arg |-> op.arg, extracted |-> s.extracted]
    /\ UNCHANGED <<inputToken, inputParts, parsedMove, spokenPhrase, moveMap,
                   domPage, extractedText, quiet>>

\* no token: the caller holds a ParsedMove only
NoToken ==
    [kind |-> "none", class |-> "none", prefix |-> << >>, lead |-> << >>,
     text |-> << >>, piece |-> NULL, fromFile |-> NULL, fromRank |-> NULL,
     isCapture |-> FALSE, toSquare |-> << >>, promotion |-> << >>,
     suffix |-> << >>]

\* D: the settings explored
InitIn(D) ==
    /\ settings \in D                   \* DEFAULT_SETTINGS merged with the stored ones
    /\ state = "idle"
    /\ detectTimer = NULL
    /\ cooldownTimer = NULL
    /\ collectedTriggers = << >>
    /\ currentWordMapping = NULL
    /\ currentRawText = << >>
    /\ currentProcessedText = << >>
    /\ processedWordStarts = << >>
    /\ keepAliveTimer = NULL
    /\ currentMoveRanges = << >>
    /\ currentHighlightedSquare = NoSquare
    /\ playbackState = "idle"
    /\ orphanDetect = 0
    /\ orphanCooldown = 0
    /\ synthQueue = << >>
    /\ synthPaused = FALSE
    /\ lateEvents = 0
    /\ overlays = {}
    /\ wordSpans = {}
    /\ deviceCalls = << >>
    /\ spokenUtterance = NoUtterance
    /\ lastOp = [op |-> "init", arg |-> NULL, extracted |-> FALSE]
    /\ extractedText = << >>
    /\ quiet = FALSE

(***************************************************************************)
(* Actions: one per event the page, the timers, the device, the popup or   *)
(* the panel can deliver.                                                  *)
(***************************************************************************)
\* MutationObserver callback, the branches that call onWrongMoveDetected at
\* once (the indicator is visible)
MutationObserved ==
    \E el \in Nodes :
        /\ settings.enabled
        /\ Apply(onWrongMoveDetected(Cur, el), Op("onWrongMoveDetected"))

\* window.__chessableTTS.handleWrongMove()
HandleWrongMove ==
    \E body \in Nodes :
        Apply(onWrongMoveDetected(Cur, body), Op("onWrongMoveDetected"))

\* D: the pages explored
DetectTimerFires(D) ==
    \E orphan \in BOOLEAN, dom \in D :
        /\ IF orphan THEN orphanDetect > 0 ELSE detectTimer # NULL
        /\ dom.visible => dom.voices \in VoiceListsFor(settings.voice)
        /\ dom.usable
           => detectExtracts[dom.page][firstTrigger(Cur)].explanationEl # NULL
        /\ Apply(onDetectWindowClosed(takeDetectTimer(Cur, orphan), dom),
                 [Op("onDetectWindowClosed") EXCEPT
                     !.arg = IF ~dom.visible THEN "hidden"
                             ELSE IF detectParts(
                                        DEFAULT_SETTINGS,
                                        detectExtracts[dom.page][firstTrigger(Cur)].move,
                                        detectExtracts[dom.page][firstTrigger(Cur)].explanation)
                                     = << >>
                             THEN "empty" ELSE "visible"])

CooldownTimerFires ==
    \E orphan \in BOOLEAN :
        /\ IF orphan THEN orphanCooldown > 0 ELSE cooldownTimer # NULL
        /\ Apply(onCooldownElapsed(takeCooldownTimer(Cur, orphan)),
                 Op("cooldownElapsed"))

KeepAliveTick ==
    /\ keepAliveTimer # NULL
    /\ Apply(onKeepAliveTick(Cur), Op("keepAliveTick"))

\* the device finishes the utterance it is speaking
UtteranceEnds ==
    /\ synthQueue # << >>
    /\ ~synthPaused
    /\ Apply(utteranceOnEnd([Cur EXCEPT !.synthQueue = Tail(@)]), Op("onend"))

\* the device fails on the utterance it is speaking
UtteranceFails ==
    \E code \in {"interrupted", "synthesis-failed"} :
        /\ synthQueue # << >>
        /\ Apply(utteranceOnError([Cur EXCEPT !.synthQueue = Tail(@)], code),
                 [Op("onerror") EXCEPT !.arg = code])

\* the device delivers the final event of an utterance that was cancelled
LateEvent ==
    \E kind \in {"end", "interrupted", "canceled"} :
        /\ lateEvents > 0
        /\ LET s == [Cur EXCEPT !.lateEvents = @ - 1]
           IN  Apply(IF kind = "end" THEN utteranceOnEnd(s)
                     ELSE utteranceOnError(s, kind),
                     [Op("lateEvent") EXCEPT !.arg = kind])

\* the device reports a boundary in the utterance it is speaking: charIndex is
\* the offset of a word of the text spoken last.  lastOp keeps, for a word
\* boundary, the number of the move range charIndex lies in (0 = in none)
BoundaryEvent ==
    /\ synthQueue # << >>
    /\ ~synthPaused
    /\ \E name \in {"word", "sentence"}, k \in DOMAIN processedWordStarts,
          hit \in 0..Len(currentMoveRanges) :
            /\ \A j \in 1..Len(currentMoveRanges) :
                    (j = hit)
                    = (/\ currentMoveRanges[j].charStart <= processedWordStarts[k]
                       /\ processedWordStarts[k] < currentMoveRanges[j].charEnd)
            /\ Apply(onBoundary(Cur, name, processedWordStarts[k]),
                     [Op("onboundary") EXCEPT
                         !.arg = IF name = "word" THEN ToString(hit)
                                 ELSE "sentence"])

\* lastOp keeps whether the message sets enabled to false
SettingsUpdated(D) ==
    \E msg \in Messages(D) :
        /\ mergeSettings(settings, msg) \in D
        /\ \E dom \in RestartDomsFor(state, mergeSettings(settings, msg).voice) :
                Apply(onSettingsUpdated(Cur, msg, dom),
                      [Op("SETTINGS_UPDATED") EXCEPT
                          !.arg = IF "enabled" \in msg.has /\ ~msg.val.enabled
                                  THEN "disable" ELSE "keep"])

\* what lastOp keeps of the text given to speak(text)
TextKind(text) == IF Trim(text) = << >> THEN "blank" ELSE "text"

\* chrome.runtime.onMessage, case 'TEST_SPEAK'
TestSpeak ==
    \E voices \in VoiceListsFor(settings.voice) :
        Apply(speak(Cur, TEST_SPEAK_TEXT, voices),
              [Op("speak") EXCEPT !.arg = TextKind(TEST_SPEAK_TEXT)])

\* window.__chessableTTS.speak(text) / testNotation(text)
DebugSpeak ==
    \E text \in DebugTexts, voices \in VoiceListsFor(settings.voice) :
        Apply(speak(Cur, text, voices), [Op("speak") EXCEPT !.arg = TextKind(text)])

\* window.__chessableTTS.resetState()
ResetState ==
    Apply(resetToIdle(Cur), Op("resetState"))

PanelToggleEnabled(D) ==
    \E enabled \in BOOLEAN :
        /\ [settings EXCEPT !.enabled = enabled] \in D
        /\ Apply(onToggleEnabled(Cur, enabled), Op("onToggleEnabled"))

\* onRateChange / onPitchChange / onVolumeChange / onVoiceChange
PanelSpeechSetting(D) ==
    \E key \in SpeechFields :
        \E value \in FieldValues(key) :
            /\ [settings EXCEPT ![key] = value] \in D
            /\ \E dom \in RestartDomsFor(state, [settings EXCEPT ![key] = value].voice) :
                    Apply(applySpeechSetting(Cur, key, value, dom),
                          Op("applySpeechSetting"))

\* onReadMoveChange / onReadExplanationChange
PanelReadSetting(D) ==
    \E key \in {"readMoveFirst", "readExplanation"}, on \in BOOLEAN :
        /\ [settings EXCEPT ![key] = on] \in D
        /\ Apply([Cur EXCEPT !.settings[key] = on], Op("readSetting"))

PanelReadCurrent ==
    \E dom \in ReadDoms :
        /\ dom.voices \in VoiceListsFor(settings.voice)
        /\ Apply(readCurrentExplanation(Cur, dom),
                 [Op("readCurrentExplanation") EXCEPT
                     !.arg = IF \E i \in DOMAIN dom.found :
                                    Len(Trim(dom.found[i].text)) > 3
                             THEN "text" ELSE "none"])

\* the pause button: enabled, and bound to onPause, while the panel shows 'speaking'
PanelPause ==
    /\ playbackState = "speaking"
    /\ Apply(onPause(Cur), Op("onPause"))

PanelResume ==
    /\ playbackState = "paused"
    /\ Apply(onResume(Cur), Op("onResume"))

\* the restart button is disabled while the panel shows 'idle'
PanelRestart ==
    /\ playbackState # "idle"
    /\ \E dom \in RestartDomsFor("speaking", settings.voice) :
            Apply(onRestart(Cur, dom), Op("onRestart"))

\* the coordinator with everything that triggers, ends and disables narration
Next ==
    \/ MutationObserved
    \/ HandleWrongMove
    \/ DetectTimerFires(DetectDoms)
    \/ CooldownTimerFires
    \/ KeepAliveTick
    \/ UtteranceEnds
    \/ UtteranceFails
    \/ LateEvent
    \/ BoundaryEvent
    \/ SettingsUpdated(CoordinatorSettings)
    \/ PanelToggleEnabled(CoordinatorSettings)
    \/ TestSpeak
    \/ DebugSpeak
    \/ ResetState

Init ==
    /\ InitIn(CoordinatorSettings)
    /\ inputToken = << >> /\ inputParts = NoToken
    /\ parsedMove = NoMatch /\ spokenPhrase = << >>
    /\ moveMap = [processed |-> << >>, moveRanges |-> << >>]
    /\ domPage = NoPage

Spec == Init /\ [][Next]_vars

\* manual speech, the settings and the panel
NextSpeech ==
    \/ CooldownTimerFires
    \/ KeepAliveTick
    \/ UtteranceEnds
    \/ UtteranceFails
    \/ LateEvent
    \/ BoundaryEvent
    \/ SettingsUpdated(SettingsDomain)
    \/ TestSpeak
    \/ DebugSpeak
    \/ ResetState
    \/ PanelToggleEnabled(SettingsDomain)
    \/ PanelSpeechSetting(SettingsDomain)
    \/ PanelReadSetting(SettingsDomain)
    \/ PanelReadCurrent
    \/ PanelPause
    \/ PanelResume
    \/ PanelRestart

InitSpeech ==
    /\ InitIn(SettingsDomain)
    /\ inputToken = << >> /\ inputParts = NoToken
    /\ parsedMove = NoMatch /\ spokenPhrase = << >>
    /\ moveMap = [processed |-> << >>, moveRanges |-> << >>]
    /\ domPage = NoPage

SpecSpeech == InitSpeech /\ [][NextSpeech]_vars

\* the coordinator together with the manual commands of the panel
NextPanel ==
    \/ MutationObserved
    \/ HandleWrongMove
    \/ DetectTimerFires(DetectDoms)
    \/ CooldownTimerFires
    \/ KeepAliveTick
    \/ UtteranceEnds
    \/ UtteranceFails
    \/ LateEvent
    \/ BoundaryEvent
    \/ PanelToggleEnabled(CoordinatorSettings)
    \/ TestSpeak
    \/ DebugSpeak
    \/ ResetState
    \/ PanelReadCurrent
    \/ PanelPause
    \/ PanelResume
    \/ PanelRestart

SpecPanel == Init /\ [][NextPanel]_vars

\* the environment stops: from here on only the timers and the device act
EventsStop ==
    /\ ~quiet
    /\ quiet' = TRUE
    /\ lastOp' = [op |-> "eventsStop", arg |-> NULL, extracted |-> FALSE]
    /\ UNCHANGED <<settings, state, detectTimer, cooldownTimer, collectedTriggers,
                   currentWordMapping, currentRawText, currentProcessedText,
                   processedWordStarts, keepAliveTimer, currentMoveRanges,
                   currentHighlightedSquare, playbackState, orphanDetect,
                   orphanCooldown, synthQueue, synthPaused, lateEvents, overlays,
                   wordSpans, deviceCalls, spokenUtterance,
                   inputToken, inputParts, parsedMove, spokenPhrase, moveMap,
                   domPage, extractedText>>

\* the pages explored with the environment that stops: no indicator, an
\* indicator without text, an indicator with a move and an explanation
QuietDoms ==
    {d \in DetectDoms :
        \/ ~d.visible
        \/ /\ d.usable /\ d.voices # {}
           /\ d.page.doc.moveNotation.found /\ d.page.near.explanationText.found
        \/ ~d.usable /\ d.voices # {} /\ d.page = NoPage}

\* the coordinator and the panel until the environment stops, the timers and
\* the device throughout
NextQuiet ==
    \/ ~quiet /\ MutationObserved
    \/ ~quiet /\ HandleWrongMove
    \/ ~quiet /\ PanelToggleEnabled(CoordinatorSettings)
    \/ ~quiet /\ TestSpeak
    \/ ~quiet /\ ResetState
    \/ ~quiet /\ PanelPause
    \/ ~quiet /\ PanelResume
    \/ ~quiet /\ PanelRestart
    \/ EventsStop
    \/ DetectTimerFires(QuietDoms)
    \/ CooldownTimerFires
    \/ KeepAliveTick
    \/ UtteranceEnds
    \/ UtteranceFails
    \/ LateEvent

\* as long as a timer is pending, the keep-alive interval is armed, the device
\* speaks an utterance it is not paused on or owes the final event of a
\* cancelled one, one of them acts.  (The timers and the device each act in
\* bounded time, which is more than this asks for.)
SpecQuiet ==
    /\ Init
    /\ [][NextQuiet]_vars
    /\ WF_vars(\/ DetectTimerFires(QuietDoms)
               \/ CooldownTimerFires
               \/ KeepAliveTick
               \/ UtteranceEnds
               \/ LateEvent)

(***************************************************************************)
(* chess-notation.ts as a library: parseMove, moveToSpeech and processText *)
(* applied to the inputs a caller can pass.  A token is kept with the      *)
(* parts it was written from: a move-number prefix, what leads the body,   *)
(* the SAN components or a literal text, and the run of suffix glyphs.     *)
(***************************************************************************)
\* the string a caller passes for the parts
TokenText(parts) ==
    parts.prefix \o parts.lead
    \o (IF parts.kind = "san"
        THEN (IF parts.piece # NULL THEN <<parts.piece>> ELSE << >>)
             \o (IF parts.fromFile # NULL THEN <<parts.fromFile>> ELSE << >>)
             \o (IF parts.fromRank # NULL THEN <<parts.fromRank>> ELSE << >>)
             \o (IF parts.isCapture THEN <<"x">> ELSE << >>)
             \o parts.toSquare \o parts.promotion
        ELSE parts.text)
    \o parts.suffix

\* the tokens and texts explored: SAN tokens and castling tokens with every
\* prefix and suffix run, blank strings, words in which no move is found, tokens
\* whose trailing piece letter does not follow a rank, the examples of the
\* README, moves written without a space between them, and prose of up to
\* MaxWords words: moves, a move the parser rejects and a plain word
NotationTokens ==
    [kind : {"san"}, class : {"move"},
     prefix : {<< >>, <<"1", ".">>, <<"1", "2", ".", ".", ".">>, <<"3", ".", " ">>},
     lead : {<< >>, <<".">>, <<"1", ".">>},
     text : {<< >>},
     piece : {NULL, "N"}, fromFile : {NULL, "b"}, fromRank : {NULL, "1"},
     isCapture : BOOLEAN, toSquare : {<<"e", "4">>, <<"e", "8">>},
     promotion : {<< >>, <<"=", "Q">>, <<"N">>},
     suffix : {<< >>, <<"+">>, <<"+", "+">>, <<"#">>, <<"!">>, <<"!", "?">>,
               <<"!", "+">>, <<"?", "#">>, <<"+", "!">>, <<"+", "#">>, <<"#", "+">>,
               <<"+", "+", "+">>}]
    \cup [kind : {"castle"}, class : {"move"},
          prefix : {<< >>, <<"1", ".">>, <<"1", "2", ".", ".", ".">>, <<"3", ".", " ">>},
          lead : {<< >>, <<".">>, <<"1", ".">>},
          text : {T_OOO, T_OO, <<"0", "-", "0", "-", "0">>, <<"0", "-", "0">>},
          piece : {NULL}, fromFile : {NULL}, fromRank : {NULL},
          isCapture : {FALSE}, toSquare : {<< >>}, promotion : {<< >>},
          suffix : {<< >>, <<"+">>, <<"+", "+">>, <<"#">>, <<"!">>, <<"!", "?">>,
               <<"!", "+">>, <<"?", "#">>, <<"+", "!">>, <<"+", "#">>, <<"#", "+">>,
               <<"+", "+", "+">>}]
    \cup [kind : {"text"}, class : {"blank"}, prefix : {<< >>}, lead : {<< >>},
            text : {<< >>, <<" ">>, <<" ", "\t", " ">>},
            piece : {NULL}, fromFile : {NULL}, fromRank : {NULL},
            isCapture : {FALSE}, toSquare : {<< >>}, promotion : {<< >>},
            suffix : {<< >>}]
    \cup [kind : {"text"}, class : {"garbage"}, prefix : {<< >>}, lead : {<< >>},
            text : {<<"h", "e", "l", "l", "o">>, <<"Z", "9">>, <<"e", "9">>,
                    <<"N", "x", "x", "4">>, <<"K", "f">>, <<"+">>,
                    <<"1", ".">>},
            piece : {NULL}, fromFile : {NULL}, fromRank : {NULL},
            isCapture : {FALSE}, toSquare : {<< >>}, promotion : {<< >>},
            suffix : {<< >>}]
    \cup [kind : {"text"}, class : {"loose"}, prefix : {<< >>}, lead : {<< >>},
            text : {<<"N">>, <<"e", "Q">>, <<"e", "=", "Q">>, <<"N", "f", "=", "Q">>,
                    <<"x", "B">>},
            piece : {NULL}, fromFile : {NULL}, fromRank : {NULL},
            isCapture : {FALSE}, toSquare : {<< >>}, promotion : {<< >>},
            suffix : {<< >>}]
    \cup [kind : {"text"}, class : {"example"}, prefix : {<< >>}, lead : {<< >>},
            text : {<<"N", "f", "3">>, <<"B", "x", "e", "5", "+">>, <<"O", "-", "O">>,
                    <<"O", "-", "O", "-", "O">>, <<"e", "x", "d", "5">>,
                    <<"e", "8", "=", "Q">>, <<"R", "x", "d", "8", "#">>,
                    <<"N", "b", "d", "7">>, <<"R", "1", "e", "4">>},
            piece : {NULL}, fromFile : {NULL}, fromRank : {NULL},
            isCapture : {FALSE}, toSquare : {<< >>}, promotion : {<< >>},
            suffix : {<< >>}]
    \cup [kind : {"text"}, class : {"run"}, prefix : {<< >>}, lead : {<< >>},
            text : {<<"e", "e", "4", "e", "4">>, <<"e", "x", "d", "5", "e", "4">>,
                    <<"e", "4", "e", "4", "e", "4">>, <<"N", "x", "e", "4", "d", "5">>},
            piece : {NULL}, fromFile : {NULL}, fromRank : {NULL},
            isCapture : {FALSE}, toSquare : {<< >>}, promotion : {<< >>},
            suffix : {<< >>}]
    \cup [kind : {"text"}, class : {"composed"}, prefix : {<< >>}, lead : {<< >>},
            text : {Join(ws, SP) :
                      ws \in UNION {[1..n -> {<<"N", "f", "3">>, <<"e", "4", "+", "!">>, <<"O", "-", "O">>,
                              <<"t", "h", "e", "n">>, <<"e", "x", "d", "5", "+">>}] :
                                       n \in 1..MaxWords}},
            piece : {NULL}, fromFile : {NULL}, fromRank : {NULL},
            isCapture : {FALSE}, toSquare : {<< >>}, promotion : {<< >>},
            suffix : {<< >>}]

\* the ParsedMove objects with a castle flag a caller can build (the type does
\* not tie the other fields to the castle flags)
CastleMoves ==
    {pm \in [piece : {NULL, "N"}, fromFile : {NULL}, fromRank : {NULL},
             isCapture : BOOLEAN, toSquare : {<<"g", "8">>, <<"e", "4">>},
             promotionPiece : {NULL, "Q"},
             isCheck : BOOLEAN, isDoubleCheck : BOOLEAN, isCheckmate : BOOLEAN,
             isCastleKingside : BOOLEAN, isCastleQueenside : BOOLEAN] :
        pm.isCastleKingside \/ pm.isCastleQueenside}

\* the caller holds a token, or a ParsedMove of its own making; it applies one
\* of the functions to the token, and moveToSpeech to a ParsedMove any number
\* of times
InitNotation ==
    /\ InitIn({DEFAULT_SETTINGS})
    /\ spokenPhrase = << >>
    /\ moveMap = [processed |-> << >>, moveRanges |-> << >>]
    /\ domPage = NoPage
    /\ \/ /\ inputParts \in NotationTokens
          /\ inputToken = TokenText(inputParts)
          /\ parsedMove = NoMatch
       \/ /\ inputParts = NoToken
          /\ inputToken = << >>
          /\ parsedMove \in CastleMoves

\* parseMove(token)
ParseToken ==
    /\ lastOp.op = "init" /\ inputParts # NoToken
    /\ parsedMove' = parseMove(inputToken)
    /\ lastOp' = [op |-> "parseMove", arg |-> NULL, extracted |-> FALSE]
    /\ UNCHANGED <<inputToken, inputParts, spokenPhrase, moveMap>>
    /\ UNCHANGED <<settings, state, detectTimer, cooldownTimer, collectedTriggers,
                 currentWordMapping, currentRawText, currentProcessedText,
                 processedWordStarts, keepAliveTimer, currentMoveRanges,
                 currentHighlightedSquare, playbackState, orphanDetect,
                 orphanCooldown, synthQueue, synthPaused, lateEvents, overlays,
                 wordSpans, deviceCalls, spokenUtterance, domPage,
                 extractedText, quiet>>

\* moveToSpeech(parsed)
SpeakMove ==
    /\ parsedMove # NoMatch
    /\ spokenPhrase' = moveToSpeech(parsedMove)
    /\ lastOp' = [op |-> "moveToSpeech", arg |-> NULL, extracted |-> FALSE]
    /\ UNCHANGED <<inputToken, inputParts, parsedMove, moveMap>>
    /\ UNCHANGED <<settings, state, detectTimer, cooldownTimer, collectedTriggers,
                 currentWordMapping, currentRawText, currentProcessedText,
                 processedWordStarts, keepAliveTimer, currentMoveRanges,
                 currentHighlightedSquare, playbackState, orphanDetect,
                 orphanCooldown, synthQueue, synthPaused, lateEvents, overlays,
                 wordSpans, deviceCalls, spokenUtterance, domPage,
                 extractedText, quiet>>

\* processText(text)
ProcessToken ==
    /\ lastOp.op = "init" /\ inputParts # NoToken
    /\ spokenPhrase' = processText(inputToken)
    /\ lastOp' = [op |-> "processText", arg |-> NULL, extracted |-> FALSE]
    /\ UNCHANGED <<inputToken, inputParts, parsedMove, moveMap>>
    /\ UNCHANGED <<settings, state, detectTimer, cooldownTimer, collectedTriggers,
                 currentWordMapping, currentRawText, currentProcessedText,
                 processedWordStarts, keepAliveTimer, currentMoveRanges,
                 currentHighlightedSquare, playbackState, orphanDetect,
                 orphanCooldown, synthQueue, synthPaused, lateEvents, overlays,
                 wordSpans, deviceCalls, spokenUtterance, domPage,
                 extractedText, quiet>>

\* processTextWithMoveMap(text)
ProcessTokenWithMoveMap ==
    /\ lastOp.op = "init" /\ inputParts # NoToken
    /\ moveMap' = processTextWithMoveMap(inputToken)
    /\ lastOp' = [op |-> "processTextWithMoveMap", arg |-> NULL, extracted |-> FALSE]
    /\ UNCHANGED <<inputToken, inputParts, parsedMove, spokenPhrase>>
    /\ UNCHANGED <<settings, state, detectTimer, cooldownTimer, collectedTriggers,
                 currentWordMapping, currentRawText, currentProcessedText,
                 processedWordStarts, keepAliveTimer, currentMoveRanges,
                 currentHighlightedSquare, playbackState, orphanDetect,
                 orphanCooldown, synthQueue, synthPaused, lateEvents, overlays,
                 wordSpans, deviceCalls, spokenUtterance, domPage,
                 extractedText, quiet>>

NextNotation ==
    \/ ParseToken
    \/ SpeakMove
    \/ ProcessToken
    \/ ProcessTokenWithMoveMap

SpecNotation == InitNotation /\ [][NextNotation]_vars

(***************************************************************************)
(* The text extraction of content.ts as functions of the page: the page,   *)
(* the trigger node and the read settings are drawn at the start, then one *)
(* function is applied.                                                    *)
(***************************************************************************)
ExtractionPages ==
    LET
        \* a text of n characters
        LongText(n) == [i \in 1..n |-> "a"]
        
        \* the texts of the ancestors of the trigger node: n ancestors of which those
        \* below level k are too short for strategy 3 and those from level k on are
        \* not, each with a text of its own
        AncestorChains ==
            {[i \in 1..n |-> IF i < k THEN Element(<< >>, <<" ", "0", "1", "2", "3", "4", "5", "6", "7", "8", "9", " ">>)
                              ELSE Element(<< >>, <<" ", "a", "n", "c", "e", "s", "t", "o", "r", " ", "0">> \o <<ToString(i)>>)] :
                n \in 0..MaxAncestors, k \in 1..(MaxAncestors + 1)}
            \cup {<<Element(<< >>, LongText(2000)), Element(<< >>, LongText(11))>>}
        
        \* the explanation elements: none, one whose trimmed text has 3 characters,
        \* one with 4
        ExplanationElements(accepted) ==
            {NoElement, Element(<< >>, <<" ", "o", "k", "!", " ">>), Element(<< >>, accepted)}
        
        \* the comment containers: none, and trimmed texts of 10, 11, 1999 and 2000
        \* characters
        ContainerElements ==
            {NoElement, Element(<< >>, <<" ", "0", "1", "2", "3", "4", "5", "6", "7", "8", "9", " ">>),
             Element(<< >>, <<"c", "o", "n", "t", "a", "i", "n", "e", "r", " ", "1">>),
             Element(<< >>, LongText(1999)), Element(<< >>, LongText(2000))}
        
        \* the move elements: none, with a data-san, with visible text only, with
        \* neither
        MoveElements(san, text) ==
            {NoElement, Element(san, text), Element(<< >>, text), Element(<< >>, <<" ", " ">>)}
    IN
    \* strategies 1 and 2 of extractExplanation
    {[NoPage EXCEPT !.near.explanationText = en, !.doc.explanationText = ed,
                    !.doc.commentContainer = c, !.parents = ps, !.triggerNode = t] :
        en \in ExplanationElements(<<" ", "g", "o", "o", "d", " ">>),
        ed \in ExplanationElements(<<"F", "i", "n", "e">>),
        c \in ContainerElements,
        ps \in {<< >>, <<Element(<< >>, LongText(11))>>},
        t \in Nodes \cup {NULL}}
    \cup
    \* strategy 3 of extractExplanation
    {[NoPage EXCEPT !.doc.explanationText = ed, !.doc.commentContainer = c,
                    !.parents = ps, !.triggerNode = t] :
        ed \in {NoElement, Element(<< >>, <<" ", "o", "k", "!", " ">>)},
        c \in {NoElement, Element(<< >>, <<" ", "0", "1", "2", "3", "4", "5", "6", "7", "8", "9", " ">>),
               Element(<< >>, LongText(2000))},
        ps \in AncestorChains,
        t \in Nodes \cup {NULL}}
    \cup
    \* extractMoveNotation
    {[NoPage EXCEPT !.sanNear = sn, !.highlighted = h, !.near.moveNotation = mn,
                    !.doc.moveNotation = md, !.triggerNode = t] :
        sn \in {NoElement, Element(<< >>, T_Nf3), Element(T_Nf3, << >>)},
        h \in {NoElement, Element(<< >>, << >>), Element(<<"e", "4">>, << >>)},
        mn \in MoveElements(<<"Q", "h", "5">>, <<" ", "Q", " ", "h", "5", " ">>),
        md \in MoveElements(<<"O", "-", "O">>, <<"c", "a", "s", "t", "l", "e", "s">>),
        t \in Nodes \cup {NULL}}
    \cup
    \* a move and an explanation
    {[NoPage EXCEPT !.sanNear = sn, !.doc.moveNotation = md,
                    !.near.explanationText = en, !.doc.commentContainer = c,
                    !.triggerNode = t] :
        sn \in {NoElement, Element(T_Nf3, << >>)},
        md \in {NoElement, Element(<< >>, <<" ", "e", "4", " ">>)},
        en \in {NoElement, Element(<< >>, <<" ", "g", "o", "o", "d", " ">>)},
        c \in {NoElement, Element(<< >>, <<"c", "o", "n", "t", "a", "i", "n", "e", "r", " ", "1">>)},
        t \in Nodes \cup {NULL}}

InitExtraction ==
    /\ InitIn(SettingsVarying({"readMoveFirst", "readExplanation"}))
    /\ inputToken = << >> /\ inputParts = NoToken
    /\ parsedMove = NoMatch /\ spokenPhrase = << >>
    /\ moveMap = [processed |-> << >>, moveRanges |-> << >>]
    /\ domPage \in ExtractionPages

\* the step of an extraction: text is what it returned
Extracted(name, text) ==
    /\ extractedText' = text
    /\ lastOp' = [op |-> name, arg |-> NULL, extracted |-> TRUE]
    /\ UNCHANGED <<inputToken, inputParts, parsedMove, spokenPhrase, moveMap, domPage>>
    /\ UNCHANGED <<settings, state, detectTimer, cooldownTimer, collectedTriggers,
                 currentWordMapping, currentRawText, currentProcessedText,
                 processedWordStarts, keepAliveTimer, currentMoveRanges,
                 currentHighlightedSquare, playbackState, orphanDetect,
                 orphanCooldown, synthQueue, synthPaused, lateEvents, overlays,
                 wordSpans, deviceCalls, spokenUtterance, quiet>>

\* extractMoveNotation(triggerNode)
ExtractMove ==
    /\ lastOp.op = "init"
    /\ Extracted("extractMoveNotation", extractMoveNotation(domPage, domPage.triggerNode))

\* extractExplanation(triggerNode)
ExtractExplanation ==
    /\ lastOp.op = "init"
    /\ Extracted("extractExplanation", extractExplanation(domPage, domPage.triggerNode))

\* onDetectWindowClosed from the extraction to rawText = parts.join('. ')
CollectRawText ==
    /\ lastOp.op = "init"
    /\ Extracted("rawText",
                 Join(detectParts(settings,
                                  extractMoveNotation(domPage, domPage.triggerNode),
                                  extractExplanation(domPage, domPage.triggerNode)),
                      <<".", " ">>))

NextExtraction ==
    \/ ExtractMove
    \/ ExtractExplanation
    \/ CollectRawText

SpecExtraction == InitExtraction /\ [][NextExtraction]_vars

(***************************************************************************)
(* Properties                                                              *)
(***************************************************************************)
\* C1: the speech device never holds more than one utterance that was handed
\* to speak() and has neither ended nor been cancelled.
C1_AtMostOneUtterance == Len(synthQueue) <= 1

\* C2: a final event of a cancelled utterance that is delivered while a newer
\* utterance is being spoken leaves the state, the cooldown and keep-alive
\* timers, the word mapping and the board highlighting unchanged.
C2_StaleCallbackIgnored ==
    [][(lastOp'.op = "lateEvent" /\ state = "speaking" /\ synthQueue # << >>)
        => UNCHANGED <<state, cooldownTimer, keepAliveTimer, currentWordMapping,
                       overlays, currentHighlightedSquare>>]_vars

C4_TriggerIgnored ==
    [][(lastOp'.op = "onWrongMoveDetected" /\ state \in {"speaking", "cooldown"})
        => (/\ UNCHANGED <<state, detectTimer, orphanDetect, collectedTriggers,
                           synthQueue>>
            /\ deviceCalls' = << >>)]_vars

\* a trigger was delivered in cooldown
C4_Witness ==
    lastOp.op = "onWrongMoveDetected" /\ state = "cooldown" /\ cooldownTimer = ARMED

\* C7: whenever the state is not speaking, no keep-alive interval is armed.
C7_NoKeepAliveOutsideSpeaking == state # "speaking" => keepAliveTimer = NULL

\* C5, as stated: speak(text) calls the device cancel, clears the detect and
\* cooldown timers, then always calls the device speak and leaves the state
\* speaking.
C5_SpeakAlwaysSpeaks ==
    [][lastOp'.op = "speak"
        => (/\ deviceCalls' = <<"cancel", "speak">>
            /\ detectTimer' = NULL /\ cooldownTimer' = NULL
            /\ state' = "speaking")]_vars

\* C5, amended: speak(text) calls the device cancel first and clears the detect
\* and cooldown timers from every state; with narration enabled and a text
\* that is not blank the device speak follows at once, the new utterance is the
\* only one queued and the state is speaking; otherwise there is no speak call
\* and the state is idle.
C5_SpeakCancelsThenSpeaksIfEnabled ==
    [][lastOp'.op = "speak"
        => (/\ detectTimer' = NULL /\ cooldownTimer' = NULL
            /\ IF settings'.enabled /\ lastOp'.arg = "text"
               THEN /\ deviceCalls' = <<"cancel", "speak">>
                    /\ state' = "speaking"
                    /\ synthQueue' = <<"utterance">>
               ELSE /\ deviceCalls' = <<"cancel">>
                    /\ state' = "idle"
                    /\ synthQueue' = << >>)]_vars

\* speak(text) superseded an utterance that was being spoken
C5_Witness ==
    /\ lastOp.op = "speak" /\ lastOp.arg = "text"
    /\ state = "speaking" /\ lateEvents > 0
    /\ deviceCalls = <<"cancel", "speak">>

\* C6: after narration was disabled while speaking (the handler cancelled the
\* utterance and set the state idle), the final event of that utterance leaves
\* the state idle.
C6_DisableBypassesCooldown ==
    [][(/\ lastOp.op \in {"onToggleEnabled", "SETTINGS_UPDATED"}
        /\ deviceCalls = <<"cancel">>
        /\ ~settings.enabled /\ state = "idle" /\ lateEvents = 1
        /\ lastOp'.op = "lateEvent")
        => state' = "idle"]_vars

\* C8: an end or an error, with any code, of the utterance being spoken while
\* the state is speaking clears the board and word highlighting, stops the
\* keep-alive, sets the state cooldown and arms the cooldown timer, the same
\* for end and for every code; when a cooldown timer fires the state is idle.
C8_EndOrErrorEntersCooldown ==
    [][/\ (lastOp'.op \in {"onend", "onerror"} /\ state = "speaking")
            => (/\ state' = "cooldown" /\ cooldownTimer' = ARMED
                /\ overlays' = {} /\ currentHighlightedSquare' = NoSquare
                /\ currentWordMapping' = NULL
                /\ wordSpans' = wordSpans \ {currentWordMapping}
                /\ keepAliveTimer' = NULL
                /\ \A code \in {"interrupted", "synthesis-failed"} :
                        utteranceOnError(Cur, code) = utteranceOnEnd(Cur))
       /\ lastOp'.op = "cooldownElapsed" => state' = "idle"]_vars

\* the device failed with a code other than "interrupted"
C8_Witness ==
    /\ lastOp.op = "onerror" /\ lastOp.arg = "synthesis-failed"
    /\ state = "cooldown" /\ cooldownTimer = ARMED /\ synthQueue = << >>

\* C10: when the detect timer fires and no wrong-move indicator is visible the
\* collected triggers are discarded and the state is idle, no text is
\* extracted and the speech device is not called.
C10_HiddenIndicatorDiscards ==
    [][(lastOp'.op = "onDetectWindowClosed" /\ lastOp'.arg = "hidden")
        => (/\ collectedTriggers' = << >> /\ state' = "idle"
            /\ ~lastOp'.extracted
            /\ deviceCalls' = << >> /\ UNCHANGED synthQueue)]_vars

\* the window closed on a page without the indicator
C10_Witness ==
    /\ lastOp.op = "onDetectWindowClosed" /\ lastOp.arg = "hidden"
    /\ state = "idle" /\ detectTimer = NULL

C11_NoTextReturnsToIdle ==
    [][(lastOp'.op = "onDetectWindowClosed" /\ lastOp'.arg = "empty")
        => (/\ state' = "idle" /\ collectedTriggers' = << >>
            /\ deviceCalls' = << >> /\ UNCHANGED <<synthQueue, keepAliveTimer>>
            /\ lastOp'.extracted)]_vars

\* the window closed on a visible indicator without text, after triggers were
\* collected in detecting
C11_Witness ==
    /\ lastOp.op = "onDetectWindowClosed" /\ lastOp.arg = "empty"
    /\ lastOp.extracted /\ state = "idle" /\ collectedTriggers = << >>

\* the SAN components a token was written from, as the fields of a ParsedMove
C12_Components(parts) ==
    [piece |-> parts.piece, fromFile |-> parts.fromFile,
     fromRank |-> parts.fromRank, isCapture |-> parts.isCapture,
     toSquare |-> parts.toSquare,
     promotionPiece |-> IF parts.promotion = << >> THEN NULL
                        ELSE parts.promotion[Len(parts.promotion)]]

\* the same fields of a ParsedMove
C12_Fields(pm) ==
    [piece |-> pm.piece, fromFile |-> pm.fromFile, fromRank |-> pm.fromRank,
     isCapture |-> pm.isCapture, toSquare |-> pm.toSquare,
     promotionPiece |-> pm.promotionPiece]

\* the check glyphs a suffix run carries: # checkmate, ++ double check, + check
C12_Flags(run) ==
    LET plus == Cardinality({i \in 1..Len(run) : run[i] = "+"})
        mate == \E i \in 1..Len(run) : run[i] = "#"
    IN  [isCheck |-> ~mate /\ plus = 1,
         isDoubleCheck |-> ~mate /\ plus >= 2,
         isCheckmate |-> mate]

\* C12: for every token piece? file? rank? x? destination (=?promotion)? followed
\* by any run of the glyphs + # ! ?, parseMove returns a ParsedMove, never null,
\* whose piece, fromFile, fromRank, isCapture, toSquare and promotionPiece are
\* the token's components and whose check flags are those of its glyphs.
C12_GrammarTokenParsed ==
    (/\ lastOp.op = "parseMove" /\ inputParts.kind = "san"
     /\ inputParts.prefix = << >> /\ inputParts.lead = << >>)
    => (/\ parsedMove # NoMatch
        /\ C12_Fields(parsedMove) = C12_Components(inputParts)
        /\ parsedMove.isCheck = C12_Flags(inputParts.suffix).isCheck
        /\ parsedMove.isDoubleCheck = C12_Flags(inputParts.suffix).isDoubleCheck
        /\ parsedMove.isCheckmate = C12_Flags(inputParts.suffix).isCheckmate)

\* C13: every ParsedMove returned by parseMove has at most one of isCheck,
\* isDoubleCheck, isCheckmate and never both castle flags; it is exactly one of
\* pawn move, piece move, kingside castle, queenside castle; with a castle flag
\* piece, fromFile, fromRank and promotionPiece are null and isCapture is false.
C13_ParsedMoveWellFormed ==
    (lastOp.op = "parseMove" /\ parsedMove # NoMatch)
    => (/\ Cardinality({f \in {"isCheck", "isDoubleCheck", "isCheckmate"} :
                            parsedMove[f]}) <= 1
        /\ ~(parsedMove.isCastleKingside /\ parsedMove.isCastleQueenside)
        /\ Cardinality({k \in {"pawn", "piece", "kingside", "queenside"} :
              CASE k = "pawn" -> /\ parsedMove.piece = NULL
                                 /\ ~parsedMove.isCastleKingside
                                 /\ ~parsedMove.isCastleQueenside
                [] k = "piece" -> parsedMove.piece # NULL
                [] k = "kingside" -> parsedMove.isCastleKingside
                [] k = "queenside" -> parsedMove.isCastleQueenside}) = 1
        /\ (parsedMove.isCastleKingside \/ parsedMove.isCastleQueenside)
           => (/\ parsedMove.piece = NULL /\ parsedMove.fromFile = NULL
               /\ parsedMove.fromRank = NULL /\ parsedMove.promotionPiece = NULL
               /\ ~parsedMove.isCapture))

\* parseMove returned a castling move that gives double check
C13_Witness ==
    /\ lastOp.op = "parseMove" /\ parsedMove # NoMatch
    /\ parsedMove.isCastleQueenside /\ parsedMove.isDoubleCheck
    /\ inputParts.suffix = <<"+", "+">>

\* the suffix parseMove is to match at the end of a glyph run: '#', then '++',
\* then '+'
C14_Matched(run) ==
    IF EndsWith(run, <<"#">>) THEN <<"#">>
    ELSE IF EndsWith(run, <<"+", "+">>) THEN <<"+", "+">>
    ELSE IF EndsWith(run, <<"+">>) THEN <<"+">>
    ELSE << >>

\* what is left of the run once exactly the matched suffix is removed holds
\* annotation glyphs only, so that the remainder parses
C14_RestParses(run) ==
    \A i \in 1..(Len(run) - Len(C14_Matched(run))) : run[i] \in {"!", "?"}

\* C14: the trailing suffix is classified in the order '#', '++', '+': '++' gives
\* isDoubleCheck only, '#' isCheckmate only, a single '+' isCheck only, anything
\* else no flag; exactly the matched characters are removed: the token parses
\* if and only if what precedes them parses, and then to the token's components.
C14_SuffixClassified ==
    (/\ lastOp.op = "parseMove" /\ inputParts.kind \in {"san", "castle"}
     /\ inputParts.lead = << >>)
    => (/\ (parsedMove # NoMatch) = C14_RestParses(inputParts.suffix)
        /\ parsedMove # NoMatch
           => (/\ parsedMove.isCheckmate = (C14_Matched(inputParts.suffix) = <<"#">>)
               /\ parsedMove.isDoubleCheck
                      = (C14_Matched(inputParts.suffix) = <<"+", "+">>)
               /\ parsedMove.isCheck = (C14_Matched(inputParts.suffix) = <<"+">>)
               /\ inputParts.kind = "san"
                  => C12_Fields(parsedMove) = C12_Components(inputParts)
               /\ inputParts.kind = "castle"
                  => (/\ parsedMove.isCastleKingside
                            = (inputParts.text \in {T_OO, <<"0", "-", "0">>})
                      /\ parsedMove.isCastleQueenside
                            = (inputParts.text \in {T_OOO, <<"0", "-", "0", "-", "0">>}))))

\* a capture with disambiguation that ends in '++' was parsed as double check
C14_Witness ==
    /\ lastOp.op = "parseMove" /\ inputParts.kind = "san"
    /\ inputParts.lead = << >> /\ inputParts.suffix = <<"+", "+">>
    /\ inputParts.isCapture /\ inputParts.fromFile # NULL
    /\ parsedMove # NoMatch
    /\ parsedMove.isDoubleCheck /\ ~parsedMove.isCheck

\* C15: a trailing Q/R/B/N, with or without '=' before it, that follows a rank
\* digit is recorded as promotionPiece and removed from the working token (the
\* rest parses to the token's other components); a trailing piece letter that
\* does not follow a rank digit is left in the token, which the grammar then
\* rejects, and a token without one has promotionPiece null.
C15_PromotionAfterRankOnly ==
    (lastOp.op = "parseMove" /\ inputParts.lead = << >>)
    => (/\ (inputParts.kind = "san" /\ C14_RestParses(inputParts.suffix))
           => (/\ parsedMove # NoMatch
               /\ parsedMove.promotionPiece
                      = (IF inputParts.promotion = << >> THEN NULL
                         ELSE inputParts.promotion[Len(inputParts.promotion)])
               /\ parsedMove.toSquare = inputParts.toSquare
               /\ parsedMove.piece = inputParts.piece
               /\ parsedMove.fromFile = inputParts.fromFile
               /\ parsedMove.fromRank = inputParts.fromRank
               /\ parsedMove.isCapture = inputParts.isCapture)
        /\ inputParts.class = "loose" => parsedMove = NoMatch)

\* a promotion written without '=' and followed by a check was recorded
C15_Witness ==
    /\ lastOp.op = "parseMove" /\ inputParts.kind = "san"
    /\ inputParts.lead = << >> /\ inputParts.promotion = <<"N">>
    /\ inputParts.suffix = <<"+">>
    /\ parsedMove # NoMatch /\ parsedMove.promotionPiece = "N"
    /\ parsedMove.toSquare = <<"e", "8">>

\* C16: in every ParsedMove returned by parseMove, promotionPiece is non-null
\* only for a pawn move: piece is null and neither castle flag is set.
C16_PromotionOnlyForPawns ==
    (lastOp.op = "parseMove" /\ parsedMove # NoMatch
     /\ parsedMove.promotionPiece # NULL)
    => (/\ parsedMove.piece = NULL
        /\ ~parsedMove.isCastleKingside /\ ~parsedMove.isCastleQueenside)

\* parseMove returned: its result is null or a ParsedMove
C17_Returned ==
    \/ parsedMove = NoMatch
    \/ DOMAIN parsedMove
          = {"piece", "fromFile", "fromRank", "isCapture", "toSquare",
             "promotionPiece", "isCheck", "isDoubleCheck", "isCheckmate",
             "isCastleKingside", "isCastleQueenside"}

\* the tokens that are no move whatever is stripped: blank strings, words, a
\* piece letter that follows no rank, a body led by a dot, a castling token or a
\* SAN token whose glyph run keeps a check glyph after the stripping
C17_NeverAMove ==
    \/ inputParts.class \in {"blank", "garbage", "loose", "run"}
    \/ inputParts.prefix = << >> /\ inputParts.lead = <<".">>
    \/ /\ inputParts.kind \in {"san", "castle"} /\ inputParts.lead = << >>
       /\ ~C14_RestParses(inputParts.suffix)

\* C17 as stated: parseMove never throws, and returns null for the empty string,
\* a whitespace-only string and every token that after prefix, suffix and
\* annotation stripping is neither a castling token nor a match of
\* piece? file? rank? x? destination (a token that keeps a promotion is none).
C17_NullUnlessGrammar ==
    lastOp.op = "parseMove"
    => (/\ C17_Returned
        /\ C17_NeverAMove => parsedMove = NoMatch
        /\ (/\ inputParts.kind = "san" /\ inputParts.lead = << >>
            /\ inputParts.promotion # << >>)
           => parsedMove = NoMatch)

\* C17, amended: parseMove never throws, and returns null for the empty string,
\* a whitespace-only string and every token that after prefix, suffix and
\* annotation stripping and after the removal of a promotion is neither a
\* castling token nor a match of piece? file? rank? x? destination.
C17_NullUnlessGrammarAfterPromotion ==
    lastOp.op = "parseMove"
    => (/\ C17_Returned
        /\ C17_NeverAMove => parsedMove = NoMatch)

\* parseMove declined a capture whose check glyph is followed by an annotation
C17_Witness ==
    /\ lastOp.op = "parseMove" /\ inputParts.kind = "san"
    /\ inputParts.lead = << >> /\ inputParts.isCapture
    /\ inputParts.suffix = <<"+", "!">>
    /\ parsedMove = NoMatch

\* the token without its move-number prefix
C18_Rest(parts) == TokenText([parts EXCEPT !.prefix = << >>])

\* C18 as stated: for every token t and every move-number prefix p (digits, one
\* to three dots, optional whitespace), parseMove(p + t) = parseMove(t).
C18_PrefixIgnored ==
    (lastOp.op = "parseMove" /\ inputParts.prefix # << >>)
    => parsedMove = parseMove(C18_Rest(inputParts))

\* C18, amended: parseMove(p + t) = parseMove(t) for every move-number prefix p
\* and every token t that does not itself begin with a dot or with a move
\* number (digits and a dot).
C18_PrefixIgnoredBeforeBody ==
    (/\ lastOp.op = "parseMove" /\ inputParts.prefix # << >>
     /\ inputParts.lead = << >>)
    => parsedMove = parseMove(C18_Rest(inputParts))

\* a move behind the prefix "12..." was parsed to what the move alone parses to
C18_Witness ==
    /\ lastOp.op = "parseMove" /\ inputParts.kind = "san"
    /\ inputParts.prefix = <<"1", "2", ".", ".", ".">>
    /\ inputParts.lead = << >> /\ inputParts.piece = "N"
    /\ parsedMove # NoMatch /\ parsedMove.piece = "N"
    /\ parsedMove = parseMove(C18_Rest(inputParts))

C20_CastlePhrase(pm) ==
    IF pm.isCastleQueenside THEN WORDS.Queenside_castle ELSE WORDS.Kingside_castle

\* C20 as stated: for a ParsedMove with a castle flag moveToSpeech returns
\* exactly "Queenside castle" or "Kingside castle", whatever toSquare, capture,
\* promotion and the check, double check and checkmate flags are.
C20_CastlePhraseOnly ==
    (/\ lastOp.op = "moveToSpeech"
     /\ parsedMove.isCastleKingside \/ parsedMove.isCastleQueenside)
    => spokenPhrase = C20_CastlePhrase(parsedMove)

\* C20, amended: for a ParsedMove with a castle flag moveToSpeech returns
\* "Queenside castle" or "Kingside castle", followed by " checkmate",
\* " double check" or " check" when isCheckmate, else isDoubleCheck, else isCheck
\* is set and by nothing otherwise, whatever piece, toSquare, capture and
\* promotion are.
C20_CastlePhraseThenCheck ==
    (/\ lastOp.op = "moveToSpeech"
     /\ parsedMove.isCastleKingside \/ parsedMove.isCastleQueenside)
    => spokenPhrase
          = C20_CastlePhrase(parsedMove)
            \o (IF parsedMove.isCheckmate THEN SP \o WORDS.checkmate
                ELSE IF parsedMove.isDoubleCheck THEN SP \o WORDS.double_check
                ELSE IF parsedMove.isCheck THEN SP \o WORDS.check
                ELSE << >>)

\* moveToSpeech was given a kingside castle that carries a capture, a promotion
\* and a check
C20_Witness ==
    /\ lastOp.op = "moveToSpeech"
    /\ parsedMove.isCastleKingside /\ ~parsedMove.isCastleQueenside
    /\ parsedMove.isCapture /\ parsedMove.promotionPiece = "Q"
    /\ parsedMove.isCheck /\ ~parsedMove.isCheckmate /\ ~parsedMove.isDoubleCheck
    /\ spokenPhrase = WORDS.Kingside_castle \o SP \o WORDS.check

\* C21: for every text s, processText(processText(s)) = processText(s): a second
\* scan of the transduced text replaces nothing.
C21_ProcessTextIdempotent ==
    lastOp.op = "processText" => processText(spokenPhrase) = spokenPhrase

\* the words of a text written with single spaces
RECURSIVE C22_Split(_)
C22_Split(t) ==
    IF \A i \in 1..Len(t) : t[i] # " " THEN <<t>>
    ELSE LET i == CHOOSE i \in 1..Len(t) : t[i] = " " /\ \A j \in 1..(i - 1) : t[j] # " "
         IN  <<SubSeq(t, 1, i - 1)>> \o C22_Split(SubSeq(t, i + 1, Len(t)))

\* the words with every move replaced by its phrase and every other word,
\* a rejected match included, as it is
C22_Expected(t) ==
    Join([i \in 1..Len(C22_Split(t)) |->
            IF parseMove(C22_Split(t)[i]) = NoMatch THEN C22_Split(t)[i]
            ELSE moveToSpeech(parseMove(C22_Split(t)[i]))], SP)

\* the result of processText or of processTextWithMoveMap
C22_Output ==
    IF lastOp.op = "processText" THEN spokenPhrase ELSE moveMap.processed

\* C22: in processText and in processTextWithMoveMap a match that parseMove
\* rejects is copied character for character, the text between the matches is
\* copied unchanged and in order, and the matches after a rejected one are
\* still transduced (both return: no error is propagated).
C22_RejectedMatchCopied ==
    lastOp.op \in {"processText", "processTextWithMoveMap"}
    => (/\ inputParts.class = "composed" => C22_Output = C22_Expected(inputToken)
        /\ (/\ inputParts.kind = "san" /\ inputParts.lead = << >>
            /\ inputParts.promotion # <<"N">>
            /\ ~C14_RestParses(inputParts.suffix))
           => C22_Output = inputToken)

\* processTextWithMoveMap met a rejected match between a plain word and a move
C22_Witness ==
    /\ lastOp.op = "processTextWithMoveMap" /\ inputParts.class = "composed"
    /\ inputToken = <<"t", "h", "e", "n", " ", "e", "4", "+", "!", " ", "N", "f", "3">>
    /\ moveMap.processed
          = <<"t", "h", "e", "n", " ", "e", "4", "+", "!", " ">>
            \o PIECE_NAMES("N") \o SP \o WORDS.to \o SP \o <<"f", " ", "3">>

\* C23: for a string in which MOVE_PATTERN has no match, processText returns the
\* string and processTextWithMoveMap returns it as processed, with an empty
\* moveRanges list.
C23_NoMatchUnchanged ==
    inputParts.class \in {"blank", "garbage", "loose"}
    => (/\ nextMatch(inputToken, 1) = 0
        /\ lastOp.op = "processText" => spokenPhrase = inputToken
        /\ lastOp.op = "processTextWithMoveMap"
           => moveMap = [processed |-> inputToken, moveRanges |-> << >>])

\* processTextWithMoveMap returned a word without a move as it is
C23_Witness ==
    /\ lastOp.op = "processTextWithMoveMap" /\ inputParts.class = "garbage"
    /\ inputToken = <<"h", "e", "l", "l", "o">>
    /\ moveMap.processed = <<"h", "e", "l", "l", "o">> /\ moveMap.moveRanges = << >>

\* C24: for every text s, processTextWithMoveMap(s).processed = processText(s);
\* so what doSpeak derives from a text (the text trimmed, then
\* processTextWithMoveMap) is processText of the trimmed text, and the text of
\* the utterance handed to the device is processText of the trimmed raw text
\* the coordinator keeps.
C24_MoveMapProcessedIsProcessText ==
    /\ lastOp.op = "processTextWithMoveMap"
       => (/\ moveMap.processed = processText(inputToken)
           /\ trimmedText(Trim(inputToken)).processed = processText(Trim(inputToken)))
    /\ currentProcessedText = processText(currentRawText)
    /\ spokenUtterance # NoUtterance
       => spokenUtterance.text = processText(currentRawText)

\* processTextWithMoveMap transduced the second of two moves behind a plain word
C24_Witness ==
    /\ lastOp.op = "processTextWithMoveMap" /\ inputParts.class = "composed"
    /\ inputToken = <<"t", "h", "e", "n", " ", "O", "-", "O", " ", "N", "f", "3">>
    /\ moveMap.processed = processText(inputToken)
    /\ moveMap.processed # inputToken
    /\ Len(moveMap.moveRanges) = 1

\* the moves of a list of words that are transduced and are no castling
C25_Moves(ws) ==
    SelectSeq([i \in 1..Len(ws) |-> parseMove(ws[i])],
              LAMBDA pm : /\ pm # NoMatch
                          /\ ~pm.isCastleKingside /\ ~pm.isCastleQueenside)

\* the offset in the output at which the phrase of word i starts: the outputs
\* of the words before it, each followed by a space
RECURSIVE C25_Offset(_, _)
C25_Offset(ws, i) ==
    IF i = 1 THEN 0
    ELSE C25_Offset(ws, i - 1) + Len(C22_Expected(ws[i - 1])) + 1

\* the ranges expected for a list of words: one per transduced move that is
\* no castling, in the order of the text
C25_Ranges(ws) ==
    LET idx == SelectSeq([i \in 1..Len(ws) |-> i],
                  LAMBDA i : /\ parseMove(ws[i]) # NoMatch
                             /\ ~parseMove(ws[i]).isCastleKingside
                             /\ ~parseMove(ws[i]).isCastleQueenside)
    IN  [k \in 1..Len(idx) |->
            [charStart |-> C25_Offset(ws, idx[k]),
             charEnd |-> C25_Offset(ws, idx[k]) + Len(C22_Expected(ws[idx[k]])),
             square |-> parseMove(ws[idx[k]]).toSquare]]

\* C25: every MoveRange r that processTextWithMoveMap returns has
\* 0 <= charStart < charEnd <= length(processed); processed.slice(charStart,
\* charEnd) is moveToSpeech of the move it was made for and r.square that move's
\* destination; there is one range per transduced move that is no castling, in
\* the order of the text, and none for a castling move.
C25_MoveRangesExact ==
    lastOp.op = "processTextWithMoveMap"
    => (/\ \A i \in 1..Len(moveMap.moveRanges) :
              /\ 0 <= moveMap.moveRanges[i].charStart
              /\ moveMap.moveRanges[i].charStart < moveMap.moveRanges[i].charEnd
              /\ moveMap.moveRanges[i].charEnd <= Len(moveMap.processed)
        /\ inputParts.class = "composed"
           => (/\ moveMap.moveRanges = C25_Ranges(C22_Split(inputToken))
               /\ [i \in 1..Len(moveMap.moveRanges) |->
                      SubSeq(moveMap.processed, moveMap.moveRanges[i].charStart + 1,
                             moveMap.moveRanges[i].charEnd)]
                  = [i \in 1..Len(C25_Moves(C22_Split(inputToken))) |->
                        moveToSpeech(C25_Moves(C22_Split(inputToken))[i])])
        /\ inputParts.kind = "castle" => moveMap.moveRanges = << >>
        /\ (/\ inputParts.kind = "san" /\ inputParts.lead = << >>
            /\ inputParts.promotion # <<"N">>
            /\ C14_RestParses(inputParts.suffix))
           => moveMap.moveRanges
                 = <<[charStart |-> 0,
                      charEnd |-> Len(moveToSpeech(parseMove(inputToken))),
                      square |-> inputParts.toSquare]>>)

\* two moves around a castling move gave two ranges, the second behind the
\* castle phrase
C25_Witness ==
    /\ lastOp.op = "processTextWithMoveMap" /\ inputParts.class = "composed"
    /\ inputToken = <<"N", "f", "3", " ", "O", "-", "O", " ", "e", "x", "d", "5", "+">>
    /\ Len(moveMap.moveRanges) = 2
    /\ moveMap.moveRanges[1] = [charStart |-> 0, charEnd |-> 13, square |-> <<"f", "3">>]
    /\ moveMap.moveRanges[2].square = <<"d", "5">>
    /\ moveMap.moveRanges[2].charStart = 30

\* the dedicated explanation element: the one near the trigger node, else the
\* first in the document
C26_Dedicated ==
    IF domPage.triggerNode # NULL /\ domPage.near.explanationText.found
    THEN domPage.near.explanationText
    ELSE domPage.doc.explanationText

\* the trimmed text of an element is longer than 10 and shorter than 2000
C26_Substantial(el) ==
    el.found /\ Len(Trim(el.text)) > 10 /\ Len(Trim(el.text)) < 2000

\* the levels, among the first six above the trigger node, whose text is accepted
C26_Levels ==
    IF domPage.triggerNode = NULL THEN {}
    ELSE {k \in 1..Len(domPage.parents) :
             k <= 6 /\ C26_Substantial(domPage.parents[k])}

C27_Sans ==
    SelectSeq(<<IF domPage.triggerNode # NULL THEN domPage.sanNear.san ELSE << >>,
                domPage.highlighted.san,
                IF domPage.triggerNode # NULL /\ domPage.near.moveNotation.found
                THEN domPage.near.moveNotation.san
                ELSE domPage.doc.moveNotation.san>>,
              LAMBDA san : san # << >>)

\* the move notation: a data-san attribute when one is available, the
\* visible text of the move notation element otherwise
C27_Move ==
    IF C27_Sans # << >> THEN Head(C27_Sans)
    ELSE IF domPage.triggerNode # NULL /\ domPage.near.moveNotation.found
    THEN Trim(domPage.near.moveNotation.text)
    ELSE Trim(domPage.doc.moveNotation.text)

\* the explanation, when it is to be read
C27_Explanation ==
    IF settings.readExplanation
    THEN extractExplanation(domPage, domPage.triggerNode) ELSE << >>

\* C27: with readMoveFirst on and a move notation extracted, the raw text is
\* the move notation, then ". ", then the explanation, and the move alone when
\* there is no explanation; without a move it is the explanation alone.  The
\* move notation is a data-san attribute when one is available and visible
\* text only otherwise.
C27_MoveThenExplanation ==
    lastOp.op = "rawText"
    => IF settings.readMoveFirst /\ C27_Move # << >>
       THEN extractedText
            = IF C27_Explanation # << >>
              THEN C27_Move \o <<".", " ">> \o C27_Explanation
              ELSE C27_Move
       ELSE extractedText = C27_Explanation

\* the data-san of the element near the trigger and the explanation near it
\* were joined, the visible text of the move element was not read
C27_Witness ==
    /\ lastOp.op = "rawText"
    /\ settings.readMoveFirst /\ settings.readExplanation
    /\ domPage.triggerNode # NULL
    /\ domPage.doc.moveNotation.text # << >>
    /\ extractedText = <<"N", "f", "3", ".", " ", "g", "o", "o", "d">>

\* what onRestart makes of the present state, for each page it can see
C28_Restarted == {onRestart(Cur, dom) : dom \in RestartDomsFor("speaking", settings.voice)}

\* C28: from any state, the manual restart first cancels the device and clears
\* the detect timer and the cooldown timer the coordinator holds; when a text
\* has been spoken before, it calls the device speak with the last processed
\* text, leaves currentRawText, currentProcessedText and currentMoveRanges
\* unchanged and the state speaking; when nothing has been spoken it makes no
\* speak call and leaves the state idle.
C28_RestartRespeaks ==
    \A r \in C28_Restarted :
        /\ Head(r.deviceCalls) = "cancel"
        /\ r.detectTimer = NULL /\ r.cooldownTimer = NULL
        /\ IF currentRawText # << >>
           THEN /\ r.deviceCalls = <<"cancel", "speak">>
                /\ r.spoken.text = currentProcessedText
                /\ r.currentRawText = currentRawText
                /\ r.currentProcessedText = currentProcessedText
                /\ r.currentMoveRanges = currentMoveRanges
                /\ r.state = "speaking"
           ELSE /\ r.deviceCalls = <<"cancel">>
                /\ r.state = "idle"

\* the restart button was pressed after a text with a move was spoken: the
\* text is spoken again
C28_Witness ==
    /\ lastOp.op = "onRestart"
    /\ state = "speaking" /\ cooldownTimer = NULL
    /\ deviceCalls = <<"cancel", "speak">>
    /\ currentMoveRanges # << >>
    /\ spokenUtterance.text = currentProcessedText

\* the pages readCurrentExplanation can see in the present state
C29_Doms == {dom \in ReadDoms : dom.voices \in VoiceListsFor(settings.voice)}

\* one of the lookup strategies yields a text longer than 3 characters
C29_Yields(dom) ==
    \E i \in DOMAIN dom.found :
        Len(IF dom.found[i].strategy = 1 THEN dom.found[i].text
            ELSE Trim(dom.found[i].text)) > 3

C30_Target(ranges, arg) ==
    {ranges[h].square : h \in {j \in 1..Len(ranges) : arg = ToString(j)}}

\* C30: after each word-boundary event the highlighted board square is the
\* destination square of the move range the character index lies in, or none
\* when it lies in no range; at most one square is highlighted at any time; a
\* word boundary whose target is the square highlighted already changes no
\* highlight.
C30_BoundaryHighlightsRange ==
    [][/\ Cardinality(overlays') <= 1
       /\ (lastOp'.op = "onboundary" /\ lastOp'.arg # "sentence")
          => (/\ overlays' = C30_Target(currentMoveRanges, lastOp'.arg)
              /\ C30_Target(currentMoveRanges, lastOp'.arg) = overlays
                 => UNCHANGED overlays)]_vars

\* C31: when the detecting window closes while narration is disabled, whatever
\* the page shows, the handler makes no device speak call, queues no utterance
\* and leaves the state idle; speak(text) with narration disabled or with a
\* blank text makes no device speak call, leaves no utterance queued and
\* leaves the state idle.
C31_DisabledOrBlankSpeaksNothing ==
    [][/\ (lastOp'.op = "onDetectWindowClosed" /\ ~settings.enabled)
            => (/\ state' = "idle"
                /\ \A i \in DOMAIN deviceCalls' : deviceCalls'[i] # "speak"
                /\ UNCHANGED synthQueue)
       /\ (lastOp'.op = "speak" /\ (~settings.enabled \/ lastOp'.arg = "blank"))
            => (/\ state' = "idle"
                /\ \A i \in DOMAIN deviceCalls' : deviceCalls'[i] # "speak"
                /\ synthQueue' = << >>)]_vars

\* the window closed on a visible indicator with text to read, after narration
\* was disabled during the window
C31_Witness ==
    /\ lastOp.op = "onDetectWindowClosed" /\ lastOp.arg = "visible"
    /\ lastOp.extracted /\ ~settings.enabled
    /\ state = "idle" /\ deviceCalls = << >> /\ synthQueue = << >>

\* C32: a SETTINGS_UPDATED message that arrives while the state is speaking,
\* does not set enabled to false and leaves rate, pitch, volume and voice as
\* they are (the fields are absent or equal to the current values) makes no
\* device call and leaves the state, the detect, cooldown and keep-alive
\* timers, the pending timers, the raw and the processed text, the move ranges
\* and the device queue unchanged; in any other state a settings update
\* changes neither the state nor a timer.
C32_NeutralUpdateKeepsSpeech ==
    [][lastOp'.op = "SETTINGS_UPDATED"
        => /\ (/\ state = "speaking" /\ lastOp'.arg = "keep"
               /\ \A f \in SpeechFields : settings'[f] = settings[f])
                => (/\ deviceCalls' = << >>
                    /\ UNCHANGED <<state, detectTimer, cooldownTimer,
                                   keepAliveTimer, orphanDetect, orphanCooldown,
                                   currentRawText, currentProcessedText,
                                   currentMoveRanges, synthQueue, synthPaused>>)
           /\ state # "speaking"
                => (/\ deviceCalls' = << >>
                    /\ UNCHANGED <<state, detectTimer, cooldownTimer,
                                   keepAliveTimer, orphanDetect,
                                   orphanCooldown>>)]_vars

\* a message with every field, none of them new, arrived while an utterance
\* was being spoken
C32_Witness ==
    /\ lastOp.op = "SETTINGS_UPDATED" /\ lastOp.arg = "keep"
    /\ state = "speaking" /\ synthQueue # << >> /\ keepAliveTimer = ARMED
    /\ deviceCalls = << >> /\ currentProcessedText # << >>

\* C33: in every reachable state a detect timer is pending exactly when the
\* state is detecting, and at most one detect timer is pending.
C33_DetectTimerIffDetecting ==
    /\ (detectTimer # NULL \/ orphanDetect > 0) <=> state = "detecting"
    /\ (IF detectTimer # NULL THEN 1 ELSE 0) + orphanDetect <= 1

\* C34: in every reachable state a cooldown timer is pending exactly when the
\* state is cooldown, and at most one cooldown timer is pending.
C34_CooldownTimerIffCooldown ==
    /\ (cooldownTimer # NULL \/ orphanCooldown > 0) <=> state = "cooldown"
    /\ (IF cooldownTimer # NULL THEN 1 ELSE 0) + orphanCooldown <= 1

\* C34, its consequence: a cooldown timer that fires finds the state neither
\* detecting nor speaking
C34_ElapsesInCooldownOnly ==
    [][lastOp'.op = "cooldownElapsed" => state \notin {"detecting", "speaking"}]_vars

\* C35: whenever the speech device holds an utterance (it is playing it, or is
\* paused on it) the state is speaking.
C35_DeviceBusyOnlyWhileSpeaking == synthQueue # << >> => state = "speaking"

\* C36: no handler calls the device speak while settings.enabled is false.
C36_NoSpeakWhileDisabled ==
    (\E i \in DOMAIN deviceCalls : deviceCalls[i] = "speak") => settings.enabled

\* C37: whenever the state is idle, detecting or cooldown, currentWordMapping
\* and currentHighlightedSquare are null.
C37_NoHighlightOutsideSpeaking ==
    state # "speaking"
        => (currentWordMapping = NULL /\ currentHighlightedSquare = NoSquare)

\* the state idle with no detect, cooldown or keep-alive timer pending
C38_Settled ==
    /\ state = "idle"
    /\ detectTimer = NULL /\ orphanDetect = 0
    /\ cooldownTimer = NULL /\ orphanCooldown = 0
    /\ keepAliveTimer = NULL

C39_KeepAliveRespectsPause ==
    [][/\ lastOp'.op = "keepAliveTick"
            => /\ UNCHANGED <<synthQueue, synthPaused, state>>
               /\ IF synthQueue = << >>
                  THEN deviceCalls' = << >> /\ keepAliveTimer' = NULL
                  ELSE /\ UNCHANGED keepAliveTimer
                       /\ deviceCalls' = IF synthPaused THEN << >>
                                         ELSE <<"pause", "resume">>
       /\ (synthPaused /\ ~synthPaused')
            => lastOp'.op \in {"onResume", "onRestart", "speak",
                               "readCurrentExplanation"}]_vars

\* the interval ticked while the device was paused on an utterance by the
\* pause button
C39_Witness ==
    /\ lastOp.op = "keepAliveTick" /\ deviceCalls = << >>
    /\ synthPaused /\ synthQueue # << >> /\ playbackState = "paused"
    /\ keepAliveTimer = ARMED

\* C40: the moveRanges processTextWithMoveMap returns are in the order of the
\* moves in the input (for a text of words: the destinations of its moves that
\* are no castling, in that order), charStart increases strictly from one
\* range to the next and each charEnd is at most the next charStart, so that
\* no character index of the processed text lies in two ranges.
C40_RangesOrderedAndDisjoint ==
    lastOp.op = "processTextWithMoveMap"
    => (/\ \A i \in 1..(Len(moveMap.moveRanges) - 1) :
              /\ moveMap.moveRanges[i].charStart < moveMap.moveRanges[i + 1].charStart
              /\ moveMap.moveRanges[i].charEnd <= moveMap.moveRanges[i + 1].charStart
        /\ \A k \in 0..Len(moveMap.processed) :
              Cardinality({i \in 1..Len(moveMap.moveRanges) :
                              /\ moveMap.moveRanges[i].charStart <= k
                              /\ k < moveMap.moveRanges[i].charEnd}) <= 1
        /\ inputParts.class = "composed"
           => [i \in 1..Len(moveMap.moveRanges) |-> moveMap.moveRanges[i].square]
              = [i \in 1..Len(C25_Moves(C22_Split(inputToken))) |->
                    C25_Moves(C22_Split(inputToken))[i].toSquare])

\* a text with three moves gave three ranges with prose or a space between
\* them
C40_Witness ==
    /\ lastOp.op = "processTextWithMoveMap"
    /\ Len(moveMap.moveRanges) = 3
    /\ moveMap.moveRanges[1].charEnd < moveMap.moveRanges[2].charStart
    /\ moveMap.moveRanges[2].charEnd < moveMap.moveRanges[3].charStart
    /\ moveMap.moveRanges[1].square # moveMap.moveRanges[3].square

=============================================================================
